---- MODULE Spec2Model ----
(***************************************************************************)
(* Milestone Manager: a VS Code extension that wraps git to create         *)
(* "milestone" commits, list them and revert a branch to one of them.      *)
(*                                                                         *)
(* The repository holds several revisions of the extension.  Three of      *)
(* them differ in the commit-subject codec and are modelled here:          *)
(*   "plain"  src/out/extension.js   subject "Milestone: <note>"           *)
(*   "tag"    src/unnamed/part_002   subject "MSVE___BR___<b>___MS___<n>"  *)
(*   "feat"   src/README.md:183-872  subject "feat: <n> saved as milestone"*)
(*                                                                         *)
(* JavaScript strings are sequences of one-character strings, so that      *)
(* split, trim, toLowerCase and the regular expressions are computed and   *)
(* not assumed.                                                            *)
(***************************************************************************)
EXTENDS Integers, Sequences, FiniteSets, TLC

VARIABLES
    revision,               \* which revision of the extension is running
    workspaceOpen,          \* vscode.workspace.workspaceFolders is defined
    isRepo,                 \* git rev-parse --is-inside-work-tree succeeds
    headBranch,             \* what git symbolic-ref --short HEAD prints, or Undef
    additionalBaseBranches, \* the milestone-manager.additionalBaseBranches setting
    history,                \* commits of the repository, newest first
    pc,                     \* position of the command handler in flight
    op,                     \* locals of the command handler in flight
    cmds,                   \* git commands issued by the handler in flight
    errors,                 \* showErrorMessage calls of the handler in flight
    infos,                  \* showInformationMessage calls of the handler
    refreshes,              \* updateStatusBar / view refresh calls triggered
    stdout,                 \* output of the git log call of getMilestones
    logFails,               \* the git log call of getMilestones rejects
    listing,                \* outcome of the last getMilestones call
    parsed,                 \* value returned by the last getBaseBranches call
    ignoredFilesPattern,    \* the milestone-manager.ignoredFilesPattern setting
    worktree,               \* paths with changes in the working tree
    staged,                 \* paths in the index that differ from HEAD
    committed,              \* paths of the last milestone commit
    filter,                 \* locals of filterIgnoredFiles
    stored,                 \* settings.json of the workspace and of the user
    writes,                 \* config.update calls of the handler in flight
    tasks,                  \* async routines in flight, each awaiting a git command
    thisCurrentBranch,      \* this.currentBranch, the cached branch name
    cacheAge,               \* which state of HEAD this.currentBranch was read from
    headEpoch,              \* number of changes of .git/HEAD so far
    changed,                \* .git/HEAD changed since fs.watchFile last polled
    treeDirty,              \* onDidChangeTreeData fired, getChildren not yet called
    views,                  \* the HEAD whose milestones the tree and status bar show
    cachedMilestones,       \* MilestoneTreeDataProvider.cachedMilestones
    folder,                 \* the first workspace folder
    watched,                \* the files fs.watchFile is polling
    gitHeadWatcher,         \* this.gitHeadWatcher
    webviewPanel,           \* this.webviewPanel
    panels,                 \* the webview panels created so far, disposed or not
    chat                    \* the chat document and the invocations scheduled

vars == <<revision, workspaceOpen, isRepo, headBranch, additionalBaseBranches,
          history, pc, op, cmds, errors, infos, refreshes,
          stdout, logFails, listing, parsed,
          ignoredFilesPattern, worktree, staged, committed, filter,
          stored, writes,
          tasks, thisCurrentBranch, cacheAge, headEpoch, changed, treeDirty,
          views,
          cachedMilestones, folder, watched, gitHeadWatcher, webviewPanel,
          panels, chat>>

(***************************************************************************)
(* Bounds                                                                  *)
(***************************************************************************)
MaxLines == 3        \* lines of git log output given to getMilestones
MaxSetting == 5      \* characters of the additionalBaseBranches setting
MaxCommits == 2      \* commits the handlers add to the history
MaxTasks == 3        \* async routines in flight at once
MaxSwitches == 2     \* changes of .git/HEAD followed
MaxRefreshes == 2    \* calls of MilestoneTreeDataProvider.refresh

(***************************************************************************)
(* JavaScript values                                                       *)
(***************************************************************************)
\* undefined / null: a sequence no string is equal to
Undef == <<"undefined">>

Revisions == {"plain", "tag", "feat"}

Space == " "
Newline == "\n"

IsWhite(c) == c = Space \/ c = Newline

\* String.prototype.toLowerCase on one character
LowerChar(c) ==
    CASE c = "M" -> "m"
      [] c = "A" -> "a"
      [] c = "I" -> "i"
      [] c = "N" -> "n"
      [] c = "D" -> "d"
      [] c = "E" -> "e"
      [] c = "V" -> "v"
      [] c = "S" -> "s"
      [] c = "B" -> "b"
      [] c = "R" -> "r"
      [] c = "T" -> "t"
      [] OTHER -> c

\* String.prototype.toLowerCase
ToLowerCase(s) == [i \in 1..Len(s) |-> LowerChar(s[i])]

\* String.prototype.startsWith(p, at-1)
MatchesAt(s, p, at) ==
    /\ at >= 1
    /\ at + Len(p) - 1 <= Len(s)
    /\ \A k \in 1..Len(p) : s[at + k - 1] = p[k]

StartsWith(s, p) == MatchesAt(s, p, 1)

EndsWith(s, p) == MatchesAt(s, p, Len(s) - Len(p) + 1)

\* String.prototype.includes
Includes(s, p) == \E at \in 1..(Len(s) + 1) : MatchesAt(s, p, at)

\* String.prototype.indexOf from position `from` (1-based), 0 when absent
IndexOf(s, p, from) ==
    LET hits == {at \in from..(Len(s) + 1) : MatchesAt(s, p, at)}
    IN IF hits = {} THEN 0 ELSE CHOOSE at \in hits : \A o \in hits : at <= o

\* String.prototype.substring, 1-based inclusive, empty when lo > hi
Sub(s, lo, hi) == IF lo > hi THEN <<>> ELSE SubSeq(s, lo, hi)

\* String.prototype.split(sep) for a non-empty separator
RECURSIVE Split(_, _)
Split(s, sep) ==
    LET at == IndexOf(s, sep, 1)
    IN IF at = 0
       THEN <<s>>
       ELSE <<Sub(s, 1, at - 1)>> \o Split(Sub(s, at + Len(sep), Len(s)), sep)

\* String.prototype.trim
Trim(s) ==
    LET keep == {i \in 1..Len(s) : ~IsWhite(s[i])}
    IN IF keep = {}
       THEN <<>>
       ELSE Sub(s, CHOOSE i \in keep : \A j \in keep : i <= j,
                   CHOOSE i \in keep : \A j \in keep : i >= j)

\* Array.prototype.join
RECURSIVE Join(_, _)
Join(parts, sep) ==
    IF Len(parts) = 0 THEN <<>>
    ELSE IF Len(parts) = 1 THEN parts[1]
    ELSE parts[1] \o sep \o Join(Tail(parts), sep)

\* element i of a JavaScript array (0-based), undefined past the end
At(arr, i) == IF i + 1 <= Len(arr) THEN arr[i + 1] ELSE Undef

(***************************************************************************)
(* String literals of the source                                           *)
(***************************************************************************)
FIELD_DELIM == <<"|", "|", "|">>
TAG_SEP == <<"_", "_", "_">>
TAG_PREFIX == <<"M", "S", "V", "E", "_", "_", "_", "B", "R", "_", "_", "_">>
TAG_MIDDLE == <<"_", "_", "_", "M", "S", "_", "_", "_">>
GREP_TAG == <<"M", "S", "V", "E", "_", "_", "_", "B", "R", "_", "_", "_">>
MILESTONE_PREFIX == <<"M", "i", "l", "e", "s", "t", "o", "n", "e", ":", " ">>
GREP_PLAIN == <<"M", "i", "l", "e", "s", "t", "o", "n", "e", ":">>
FEAT_PREFIX == <<"f", "e", "a", "t", ":", " ">>
FEAT_HEAD == <<"f", "e", "a", "t", ":">>
FEAT_SUFFIX == <<" ", "s", "a", "v", "e", "d", " ", "a", "s", " ", "m", "i", "l", "e", "s", "t", "o", "n", "e">>
FEAT_TAIL == <<"s", "a", "v", "e", "d", " ", "a", "s", " ", "m", "i", "l", "e", "s", "t", "o", "n", "e">>
NO_NOTE == <<"N", "o", " ", "n", "o", "t", "e", " ", "p", "r", "o", "v", "i", "d", "e", "d">>
MASTER == <<"m", "a", "s", "t", "e", "r">>
MAIN == <<"m", "a", "i", "n">>
SEMI == <<";">>
LF == <<Newline>>
SP == <<Space>>

(***************************************************************************)
(* The commit-subject codec                                                *)
(***************************************************************************)
\* createMilestone: the -m argument of git commit --allow-empty.
\* `note || 'No note provided'`: the empty string is falsy.
NoteOrDefault(note) == IF note = <<>> THEN NO_NOTE ELSE note

Encode(rev, note, branchName) ==
    CASE rev = "tag" ->
            TAG_PREFIX \o Trim(branchName) \o TAG_MIDDLE \o NoteOrDefault(note)
      [] rev = "plain" -> MILESTONE_PREFIX \o NoteOrDefault(note)
      [] rev = "feat" -> FEAT_PREFIX \o NoteOrDefault(note) \o FEAT_SUFFIX

\* a wrong expression: the one of the plain scheme used by every revision
GrepMatches_PlainOnly(rev, subject) == StartsWith(subject, GREP_PLAIN)

\* the --grep expression of getMilestones / hasMilestones applied to a subject
\*   tag:   --grep="MSVE___BR___"              (unanchored)
\*   plain: --grep="^Milestone:"
\*   feat:  --grep="^feat:.*saved as milestone"
GrepMatches(rev, subject) ==
    CASE rev = "tag" -> Includes(subject, GREP_TAG)
      [] rev = "plain" -> StartsWith(subject, GREP_PLAIN)
      [] rev = "feat" ->
            /\ StartsWith(subject, FEAT_HEAD)
            /\ IndexOf(subject, FEAT_TAIL, Len(FEAT_HEAD) + 1) # 0

\* message.replace(/^feat:\s*/, '')
StripFeatPrefix(m) ==
    IF ~StartsWith(m, FEAT_HEAD) THEN m
    ELSE LET rest == Sub(m, Len(FEAT_HEAD) + 1, Len(m))
             keep == {i \in 1..Len(rest) : ~IsWhite(rest[i])}
         IN IF keep = {} THEN <<>>
            ELSE Sub(rest, CHOOSE i \in keep : \A j \in keep : i <= j, Len(rest))

\* message.replace(/\s*saved as milestone$/, '')
StripFeatSuffix(m) ==
    IF ~EndsWith(m, FEAT_TAIL) THEN m
    ELSE LET rest == Sub(m, 1, Len(m) - Len(FEAT_TAIL))
             keep == {i \in 1..Len(rest) : ~IsWhite(rest[i])}
         IN IF keep = {} THEN <<>>
            ELSE Sub(rest, 1, CHOOSE i \in keep : \A j \in keep : i >= j)

(***************************************************************************)
(* getMilestones                                                           *)
(***************************************************************************)
\* what the arrow function given to .map() does with one line of stdout:
\* it throws (TypeError on undefined.split), returns null, or returns a record
Thrown == [kind |-> "throw", hash |-> Undef, message |-> Undef,
           date |-> Undef, time |-> Undef]
Null == [kind |-> "null", hash |-> Undef, message |-> Undef,
         date |-> Undef, time |-> Undef]
Rec(hash, message, date, time) ==
    [kind |-> "rec", hash |-> hash, message |-> message,
     date |-> date, time |-> time]

\* the first token taken for the time
TimeOf_FirstToken(datetime) == At(Split(datetime, SP), 0)

\* const time = datetime.split(' ')[1];
TimeOf(datetime) == At(Split(datetime, SP), 1)

MapLine(rev, line, currentBranch) ==
    LET fields == Split(line, FIELD_DELIM)
        hash == At(fields, 0)
        message == At(fields, 1)
        date == At(fields, 2)
        datetime == At(fields, 3)
    IN CASE rev = "tag" ->
              IF message = Undef THEN Thrown
              ELSE LET messageParts == Split(message, TAG_SEP)
                   IN IF Len(messageParts) < 5 THEN Null
                      ELSE IF At(messageParts, 2) # currentBranch THEN Null
                      ELSE IF datetime = Undef THEN Thrown
                      ELSE Rec(hash, MILESTONE_PREFIX \o At(messageParts, 4),
                               date, TimeOf(datetime))
         [] rev = "plain" ->
              IF datetime = Undef THEN Thrown
              ELSE Rec(hash, message, date, TimeOf(datetime))
         [] rev = "feat" ->
              IF datetime = Undef THEN Thrown
              ELSE Rec(hash, StripFeatSuffix(StripFeatPrefix(message)),
                       date, TimeOf(datetime))

\* MapLines with the records returned newest-last
MapLines_Reversed(rev, out, currentBranch) ==
    LET lines == Split(out, LF)
        mapped == [i \in 1..Len(lines) |->
                      MapLine(rev, lines[Len(lines) + 1 - i], currentBranch)]
    IN IF \E i \in 1..Len(mapped) : mapped[i].kind = "throw"
       THEN [kind |-> "throw", value |-> <<>>]
       ELSE [kind |-> "value",
             value |-> SelectSeq(mapped, LAMBDA r : r.kind # "null")]

\* stdout.split('\n').map(...).filter(item => item !== null); the value of the
\* expression, or Thrown when the arrow function throws on some line
MapLines(rev, out, currentBranch) ==
    LET lines == Split(out, LF)
        mapped == [i \in 1..Len(lines) |-> MapLine(rev, lines[i], currentBranch)]
    IN IF \E i \in 1..Len(mapped) : mapped[i].kind = "throw"
       THEN [kind |-> "throw", value |-> <<>>]
       ELSE [kind |-> "value",
             value |-> SelectSeq(mapped, LAMBDA r : r.kind # "null")]

\* the body of the try block of getMilestones
\*   ws: a workspace folder is open; head: output of git symbolic-ref or Undef;
\*   fails: git log rejects; out: stdout of git log
TryGetMilestones(rev, ws, head, fails, out) ==
    IF ~ws THEN [kind |-> "throw", value |-> <<>>]
    ELSE IF rev = "tag" /\ head = Undef THEN [kind |-> "throw", value |-> <<>>]
    ELSE IF fails THEN [kind |-> "throw", value |-> <<>>]
    ELSE IF Trim(out) = <<>> THEN [kind |-> "value", value |-> <<>>]
    ELSE MapLines(rev, out, IF head = Undef THEN Undef ELSE Trim(head))

\* getMilestones without its catch clause
getMilestones_NoCatch(rev, ws, head, fails, out) ==
    TryGetMilestones(rev, ws, head, fails, out)

\* getMilestones: try { ... } catch (error) { console.error(...); return []; }
getMilestones(rev, ws, head, fails, out) ==
    LET body == TryGetMilestones(rev, ws, head, fails, out)
    IN IF body.kind = "throw"
       THEN [kind |-> "value", value |-> <<>>]
       ELSE body

(***************************************************************************)
(* Protected base branches                                                 *)
(***************************************************************************)
\* getBaseBranches without .filter(branch => branch.length > 0)
getBaseBranches_NoFilter(setting) ==
    IF Trim(setting) # <<>>
    THEN LET segments == Split(setting, SEMI)
         IN <<MASTER, MAIN>> \o [i \in 1..Len(segments) |-> Trim(segments[i])]
    ELSE <<MASTER, MAIN>>

\* getBaseBranches: ['master', 'main'] and the segments of the setting
getBaseBranches(setting) ==
    IF Trim(setting) # <<>>
    THEN LET segments == Split(setting, SEMI)
             trimmed == [i \in 1..Len(segments) |-> Trim(segments[i])]
         IN <<MASTER, MAIN>> \o SelectSeq(trimmed, LAMBDA b : Len(b) > 0)
    ELSE <<MASTER, MAIN>>

\* the protected-branch test of revertToMilestone without toLowerCase
IsBaseBranch_CaseSensitive(rev, currentBranch, setting) ==
    LET baseBranches == getBaseBranches(setting)
    IN \E i \in 1..Len(baseBranches) : baseBranches[i] = currentBranch

\* the protected-branch test of revertToMilestone
\*   feat:        baseBranches.some(branch => branch.toLowerCase() === lowerBranch)
\*   plain, tag:  lowerBranch === 'master' || lowerBranch === 'main'
IsBaseBranch(rev, currentBranch, setting) ==
    LET lowerBranch == ToLowerCase(currentBranch)
    IN IF rev = "feat"
       THEN LET baseBranches == getBaseBranches(setting)
            IN \E i \in 1..Len(baseBranches) :
                   ToLowerCase(baseBranches[i]) = lowerBranch
       ELSE lowerBranch = MASTER \/ lowerBranch = MAIN

(***************************************************************************)
(* Values the specifications draw their inputs from                        *)
(***************************************************************************)
DEV == <<"d", "e", "v">>
FIX == <<"f", "i", "x">>
WIP == <<"w", "i", "p">>

Digits == <<"1", "2", "3", "4", "5", "6", "7", "8", "9">>

\* one line of git log --pretty=format:"%H|||%s|||%ad|||%ai" --date=short
\* for the i-th commit listed
HashOf(i) == <<"h", Digits[i]>>
DateOf(i) == <<"d", Digits[i]>>
ClockOf(i) == <<"t", Digits[i]>>
DateTimeOf(i) == DateOf(i) \o SP \o ClockOf(i) \o SP \o <<"z">>

LogLine(i, subject) ==
    Join(<<HashOf(i), subject, DateOf(i), DateTimeOf(i)>>, FIELD_DELIM)

\* stdout of git symbolic-ref --short HEAD: the branch name and a newline;
\* Undef when HEAD is detached and the command fails
RefOut(head) == IF head = Undef THEN Undef ELSE head \o LF

\* the locals of a command handler
\* answer is the button of the modal warning, pushTo the branch named in a
\* push command, failed the git commands of the handler that were rejected,
\* newValue the setting value a configuration handler is to save, caught
\* whether an exception reached the outermost catch block of the handler,
\* before the commits of the branch when the handler was called
Op(kind) == [kind |-> kind, note |-> Undef, branchName |-> Undef,
             setting |-> Undef, target |-> 0, answer |-> "none",
             pushTo |-> Undef, failed |-> <<>>, newValue |-> Undef,
             caught |-> FALSE, before |-> <<>>]

NoOp == Op("none")
NotListed == [kind |-> "none", value |-> <<>>]

envVars == <<revision, workspaceOpen, isRepo, headBranch, additionalBaseBranches>>
handlerVars == <<pc, op, cmds, errors, infos, refreshes>>
listVars == <<stdout, logFails, listing>>

\* the default of the ignoredFilesPattern setting
DEFAULT_PATTERN ==
    <<"\\", ".", "(", "l", "o", "g", "|", "t", "m", "p", ")", "$", "|",
      "a", "p", "p", "s", "e", "t", "t", "i", "n", "g", "s", "\\", ".", ".", "*",
      "\\", ".", "j", "s", "o", "n", "$">>

\* filterIgnoredFiles is not running
NoFilter == [regex |-> Undef, filesToRemove |-> <<>>]

filterVars == <<ignoredFilesPattern, worktree, staged, committed, filter>>

\* the keys of the extension in settings.json
SettingKeys == {"additionalBaseBranches", "ignoredFilesPattern"}

\* neither settings.json sets a key of the extension
NothingStored ==
    [scope \in {"workspace", "global"} |-> [key \in SettingKeys |-> Undef]]

settingsVars == <<stored, writes>>

\* JavaScript null, as a value of this.currentBranch
JsNull == <<"null">>

\* nothing rendered yet
NoViews == [tree |-> <<"none">>, status |-> <<"none">>]

watcherVars == <<tasks, thisCurrentBranch, cacheAge, headEpoch, changed,
                 treeDirty, views>>

\* no routine in flight, no watcher event pending
WatcherIdle ==
    /\ tasks = <<>>
    /\ thisCurrentBranch = JsNull
    /\ cacheAge = [epoch |-> 0, newest |-> 0]
    /\ headEpoch = 0
    /\ changed = FALSE
    /\ treeDirty = FALSE
    /\ views = NoViews

uiVars == <<cachedMilestones, folder, watched, gitHeadWatcher, webviewPanel,
            panels, chat>>

\* no text typed into a chat document, nothing scheduled
NoChat == [scheme |-> <<"f", "i", "l", "e">>, line |-> <<>>, inputs |-> 0,
           scheduled |-> <<>>, results |-> {}]

\* empty tree cache, no file watched, no webview panel
UiIdle ==
    /\ cachedMilestones = JsNull
    /\ folder = 1
    /\ watched = {}
    /\ gitHeadWatcher = JsNull
    /\ webviewPanel = Undef
    /\ panels = {}
    /\ chat = NoChat

\* the state the specifications below add to the one of the handlers
restVars == <<filterVars, settingsVars, watcherVars, uiVars>>

RestInit ==
    /\ ignoredFilesPattern = DEFAULT_PATTERN
    /\ worktree = {}
    /\ staged = {}
    /\ committed = {}
    /\ filter = NoFilter
    /\ stored = NothingStored
    /\ writes = <<>>
    /\ WatcherIdle
    /\ UiIdle

(***************************************************************************)
(* SpecList: getMilestones on arbitrary git log output                     *)
(***************************************************************************)
\* the shapes of line a raw log is built from: a milestone of branch dev, a
\* milestone of branch fix, a milestone line cut before its date-time field,
\* a line without any delimiter, and a line of an unrelated commit
LineKinds == {"dev", "fix", "nodt", "junk", "other"}

RawLine(rev, i, k) ==
    CASE k = "dev" -> LogLine(i, Encode(rev, <<"a">>, DEV))
      [] k = "fix" -> LogLine(i, Encode(rev, <<"b">>, FIX))
      [] k = "nodt" ->
            Join(<<HashOf(i), Encode(rev, <<"c">>, DEV), DateOf(i)>>, FIELD_DELIM)
      [] k = "junk" -> SP
      [] k = "other" -> LogLine(i, WIP)

RawLog(rev, kinds) ==
    Join([i \in 1..Len(kinds) |-> RawLine(rev, i, kinds[i])], LF)

KindSeqs == UNION {[1..n -> LineKinds] : n \in 0..MaxLines}

ListInit ==
    /\ revision \in Revisions
    /\ workspaceOpen \in BOOLEAN
    /\ isRepo = TRUE
    /\ headBranch \in {DEV, FIX, Undef}
    /\ additionalBaseBranches = <<>>
    /\ history = <<>>
    /\ pc = "idle" /\ op = NoOp /\ cmds = <<>> /\ errors = <<>>
    /\ infos = <<>> /\ refreshes = 0
    /\ logFails \in BOOLEAN
    /\ workspaceOpen \/ ~logFails
    /\ \E kinds \in KindSeqs : stdout = RawLog(revision, kinds)
    /\ listing = NotListed
    /\ parsed = <<>>
    /\ RestInit

\* a call of getMilestones, from its first statement to its return
GetMilestones ==
    /\ listing = NotListed
    /\ listing' = getMilestones(revision, workspaceOpen, RefOut(headBranch),
                                logFails, stdout)
    /\ UNCHANGED <<envVars, handlerVars, restVars, history, stdout, logFails, parsed>>

ListNext == GetMilestones

SpecList == ListInit /\ [][ListNext]_vars

(***************************************************************************)
(* Claims about getMilestones on raw log output (SpecList)                 *)
(***************************************************************************)
Listed == listing # NotListed

StdoutLines == Split(stdout, LF)

FieldsOf(line) == Split(line, FIELD_DELIM)

\* the call reached the parsing of a non-empty output
ParsedOutput ==
    /\ Listed
    /\ workspaceOpen
    /\ ~logFails
    /\ revision = "tag" => headBranch # Undef
    /\ Trim(stdout) # <<>>

\* the lines of stdout a record of the result was made from
LinesOfRecord(r) ==
    {j \in 1..Len(StdoutLines) : At(FieldsOf(StdoutLines[j]), 0) = r.hash}

\* a line that getMilestones, given this line alone, turns into a record
AcceptedAlone(line) ==
    MapLine(revision, line, IF headBranch = Undef THEN Undef ELSE Trim(headBranch)).kind
        = "rec"

\* C5: a line with fewer than four '|||'-separated fields is left out of the
\* result of getMilestones and every well-formed line is still in it; three
\* well-formed lines and one malformed line give exactly three records.
C5_MalformedLinesDroppedIndividually ==
    ParsedOutput =>
        /\ listing.kind = "value"
        /\ \A j \in 1..Len(StdoutLines) :
              (Len(FieldsOf(StdoutLines[j])) >= 4 /\ AcceptedAlone(StdoutLines[j]))
                  => \E i \in 1..Len(listing.value) : j \in LinesOfRecord(listing.value[i])
        /\ \A i \in 1..Len(listing.value) :
              \E j \in LinesOfRecord(listing.value[i]) :
                  Len(FieldsOf(StdoutLines[j])) >= 4

\* C6: getMilestones never throws; when no workspace is open, when git log
\* fails, or when the output is empty or whitespace-only, it resolves to the
\* empty sequence.
C6_GetMilestonesNeverThrows ==
    /\ listing.kind # "throw"
    /\ (Listed /\ (~workspaceOpen \/ logFails \/ Trim(stdout) = <<>>))
          => listing = [kind |-> "value", value |-> <<>>]

C6_Witness ==
    /\ Listed
    /\ workspaceOpen
    /\ logFails
    /\ Len(StdoutLines) = 2
    /\ AcceptedAlone(StdoutLines[1])
    /\ listing.value = <<>>

\* C7: the records getMilestones returns are accepted lines of the git log
\* output in the output's order, each line at most once, and the first record
\* is the first accepted line.
C7_DecodePreservesOrder ==
    Listed =>
        /\ \A i \in 1..Len(listing.value) : LinesOfRecord(listing.value[i]) # {}
        /\ \A i, k \in 1..Len(listing.value) :
              i < k => \A a \in LinesOfRecord(listing.value[i]) :
                          \A b \in LinesOfRecord(listing.value[k]) : a < b
        /\ listing.value # <<>> =>
              \A j \in 1..Len(StdoutLines) :
                  (\A a \in LinesOfRecord(listing.value[1]) : j < a)
                      => ~AcceptedAlone(StdoutLines[j])

C7_Witness ==
    /\ Listed
    /\ revision = "tag"
    /\ Len(StdoutLines) = 3
    /\ Len(listing.value) = 2
    /\ listing.value[1].hash = HashOf(1)
    /\ listing.value[2].hash = HashOf(3)

(***************************************************************************)
(* SpecCodec: milestone commits made by createMilestone, read back by      *)
(* getMilestones                                                           *)
(***************************************************************************)
BR_X == <<"x">>
BR_XY == <<"x", "_", "_", "_", "y">>
CodecBranches == {DEV, BR_X, BR_XY}

\* notes typed into the input box: empty, plain, holding the tag separator,
\* holding the field delimiter
CodecNotes == {<<>>, <<"a">>, <<"a", "_", "_", "_", "b">>, <<"a", "|", "|", "|", "b">>}

\* subjects of commits made outside the extension
UnrelatedSubjects == {WIP, <<"f", "i", "x", " ", "a">>}

\* git log --pretty=format:"%H|||%s|||%ad|||%ai" --date=short --grep=...
\* on a history given newest first; commit i is printed with hash HashOf(i)
GitLog(rev, commits) ==
    LET shown == SelectSeq([i \in 1..Len(commits) |-> i],
                           LAMBDA i : GrepMatches(rev, commits[i].subject))
    IN Join([k \in 1..Len(shown) |-> LogLine(shown[k], commits[shown[k]].subject)],
            LF)

CodecInit ==
    /\ revision \in Revisions
    /\ workspaceOpen = TRUE
    /\ isRepo = TRUE
    /\ headBranch \in CodecBranches
    /\ additionalBaseBranches = <<>>
    /\ history = <<>>
    /\ pc = "idle" /\ op = NoOp /\ cmds = <<>> /\ errors = <<>>
    /\ infos = <<>> /\ refreshes = 0
    /\ logFails = FALSE
    /\ stdout = <<>>
    /\ listing = NotListed
    /\ parsed = <<>>
    /\ RestInit

\* git checkout <b> from the command line
Checkout(b) ==
    /\ b # headBranch
    /\ headBranch' = b
    /\ stdout' = <<>>
    /\ listing' = NotListed
    /\ UNCHANGED <<revision, workspaceOpen, isRepo, additionalBaseBranches,
                   handlerVars, restVars, history, logFails, parsed>>

\* the commit step of createMilestone with the note typed by the user, on the
\* branch git symbolic-ref printed
CommitMilestone(note) ==
    /\ Len(history) < MaxCommits
    /\ history' = <<[subject |-> Encode(revision, note, RefOut(headBranch)),
                     made |-> TRUE, note |-> note, branch |-> headBranch]>>
                  \o history
    /\ stdout' = <<>>
    /\ listing' = NotListed
    /\ UNCHANGED <<envVars, handlerVars, restVars, logFails, parsed>>

\* git commit -m <subject> from the command line
ExternalCommit(subject) ==
    /\ Len(history) < MaxCommits
    /\ history' = <<[subject |-> subject, made |-> FALSE, note |-> <<>>,
                     branch |-> <<>>]>> \o history
    /\ stdout' = <<>>
    /\ listing' = NotListed
    /\ UNCHANGED <<envVars, handlerVars, restVars, logFails, parsed>>

\* a call of getMilestones on the repository
ListMilestones ==
    /\ listing = NotListed
    /\ stdout' = GitLog(revision, history)
    /\ listing' = getMilestones(revision, workspaceOpen, RefOut(headBranch),
                                logFails, stdout')
    /\ UNCHANGED <<envVars, handlerVars, restVars, history, logFails, parsed>>

CodecNext ==
    \/ \E b \in CodecBranches : Checkout(b)
    \/ \E n \in CodecNotes : CommitMilestone(n)
    \/ \E u \in UnrelatedSubjects : ExternalCommit(u)
    \/ ListMilestones

SpecCodec == CodecInit /\ [][CodecNext]_vars

(***************************************************************************)
(* Claims about the codec (SpecCodec)                                      *)
(***************************************************************************)
\* commit i of the history is printed in stdout
Printed(i) ==
    \E j \in 1..Len(StdoutLines) :
        StartsWith(StdoutLines[j], HashOf(i) \o FIELD_DELIM)

\* the records of the listing made from commit i of the history
RecordsOf(i) == {k \in 1..Len(listing.value) : listing.value[k].hash = HashOf(i)}

\* C4: the subject createMilestone builds from a note and a branch, read back
\* by getMilestones on that branch as the only log line, gives exactly one
\* record, whose message is the note, or 'No note provided' for the empty note.
C4_EncodeDecodeRoundTrip ==
    (/\ Listed
     /\ Len(history) = 1
     /\ history[1].made
     /\ history[1].branch = headBranch)
        => /\ Len(listing.value) = 1
           /\ listing.value[1].message = NoteOrDefault(history[1].note)

\* C8: the --grep expression of each scheme accepts every subject that
\* createMilestone of that revision produces and rejects an unrelated subject.
C8_FilterMatchesEncode ==
    Listed =>
        \A i \in 1..Len(history) : Printed(i) <=> history[i].made

C8_Witness ==
    /\ Listed
    /\ Len(history) = 2
    /\ history[1].made
    /\ ~history[2].made
    /\ Len(StdoutLines) = 1
    /\ Printed(1)

\* C9: in the tag-embedded scheme every record getMilestones returns is a
\* milestone created on the current branch, and every milestone created on
\* the current branch is returned: milestones created on a branch A are never
\* listed on another branch B.
C9_BranchTagScoping ==
    (Listed /\ revision = "tag") =>
        /\ \A k \in 1..Len(listing.value) :
              \E i \in 1..Len(history) :
                  /\ k \in RecordsOf(i)
                  /\ history[i].made
                  /\ history[i].branch = headBranch
        /\ \A i \in 1..Len(history) :
              (history[i].made /\ history[i].branch = headBranch)
                  => RecordsOf(i) # {}

(***************************************************************************)
(* SpecConfig: the additionalBaseBranches setting and getBaseBranches      *)
(***************************************************************************)
SettingChars == {"d", "s", ";", Space}

DEVELOP_STAGING == <<"d", "e", "v", "e", "l", "o", "p", ";", "s", "t", "a", "g", "i", "n", "g", ";">>
DEVELOP == <<"d", "e", "v", "e", "l", "o", "p">>
STAGING == <<"s", "t", "a", "g", "i", "n", "g">>

NotParsed == <<>>

ConfigInit ==
    /\ revision = "feat"
    /\ workspaceOpen = TRUE
    /\ isRepo = TRUE
    /\ headBranch = DEV
    /\ additionalBaseBranches = <<>>
    /\ history = <<>>
    /\ pc = "idle" /\ op = NoOp /\ cmds = <<>> /\ errors = <<>>
    /\ infos = <<>> /\ refreshes = 0
    /\ logFails = FALSE
    /\ stdout = <<>>
    /\ listing = NotListed
    /\ parsed = NotParsed
    /\ RestInit

\* the user edits the setting: one more character
TypeSettingChar(c) ==
    /\ Len(additionalBaseBranches) < MaxSetting
    /\ additionalBaseBranches' = additionalBaseBranches \o <<c>>
    /\ parsed' = NotParsed
    /\ UNCHANGED <<revision, workspaceOpen, isRepo, headBranch, history,
                   handlerVars, restVars, listVars>>

\* the user sets the setting to 'develop;staging;'
SetSettingExample ==
    /\ additionalBaseBranches = <<>>
    /\ additionalBaseBranches' = DEVELOP_STAGING
    /\ parsed' = NotParsed
    /\ UNCHANGED <<revision, workspaceOpen, isRepo, headBranch, history,
                   handlerVars, restVars, listVars>>

\* a call of getBaseBranches
GetBaseBranches ==
    /\ parsed = NotParsed
    /\ parsed' = getBaseBranches(additionalBaseBranches)
    /\ UNCHANGED <<envVars, history, handlerVars, restVars, listVars>>

ConfigNext ==
    \/ \E c \in SettingChars : TypeSettingChar(c)
    \/ SetSettingExample
    \/ GetBaseBranches

SpecConfig == ConfigInit /\ [][ConfigNext]_vars

(***************************************************************************)
(* Claims about getBaseBranches (SpecConfig)                               *)
(***************************************************************************)
\* the positions where a ';'-separated segment of the setting starts
SegmentStarts(s) == {1} \cup {k + 1 : k \in {k \in 1..Len(s) : s[k] = ";"}}

\* the last position of the segment that starts at a (a - 1 when it is empty)
SegmentEnd(s, a) ==
    LET semis == {k \in a..Len(s) : s[k] = ";"}
    IN IF semis = {} THEN Len(s)
       ELSE (CHOOSE k \in semis : \A o \in semis : k <= o) - 1

\* the positions of the segment starting at a that hold no blank
Inked(s, a) == {k \in a..SegmentEnd(s, a) : s[k] # Space}

\* the starts of the segments that are not blank
InkedStarts(s) == {a \in SegmentStarts(s) : Inked(s, a) # {}}

\* C10: getBaseBranches returns 'master', 'main' and then, in order, the
\* ';'-separated segments of the setting, each trimmed, the empty ones left
\* out; 'develop;staging;' contributes exactly 'develop' and 'staging'.
C10_GetBaseBranchesParsesSetting ==
    parsed # NotParsed =>
        LET s == additionalBaseBranches
            extra == Sub(parsed, 3, Len(parsed))
        IN /\ Len(parsed) >= 2
           /\ parsed[1] = MASTER
           /\ parsed[2] = MAIN
           /\ Len(extra) = Cardinality(InkedStarts(s))
           /\ \A a \in InkedStarts(s) :
                 LET rank == Cardinality({b \in InkedStarts(s) : b <= a})
                     lo == CHOOSE k \in Inked(s, a) : \A o \in Inked(s, a) : k <= o
                     hi == CHOOSE k \in Inked(s, a) : \A o \in Inked(s, a) : k >= o
                 IN extra[rank] = SubSeq(s, lo, hi)
           /\ s = DEVELOP_STAGING => parsed = <<MASTER, MAIN, DEVELOP, STAGING>>

C10_Witness ==
    /\ additionalBaseBranches = DEVELOP_STAGING
    /\ Len(parsed) = 4

(***************************************************************************)
(* Spec: the command handlers createMilestone and revertToMilestone        *)
(*                                                                         *)
(* A handler is a sequence of steps, one per await; between two steps the  *)
(* user and other programs may change the repository and the settings.     *)
(* cmds, errors, infos and refreshes record what the handler in flight has *)
(* done; pc = "done" is the moment the handler returns, and Return clears  *)
(* them.                                                                   *)
(***************************************************************************)
MAIN_CAP == <<"M", "a", "i", "n">>
DEV_CAP == <<"D", "e", "v">>
DEV_REL == <<"d", "e", "v", ";", " ", "r", "e", "l", ";">>

\* branches HEAD may point to; Undef is a detached HEAD
HeadBranches == {MAIN, MAIN_CAP, DEV, DEV_CAP}

\* values of the additionalBaseBranches setting
Settings == {<<>>, DEV_REL}

\* notes typed into the input box of createMilestone
Notes == {<<>>, <<"a">>}

\* git commands that change the repository or its remote
Mutating == {"add .", "reset -- *.log", "reset -- appsettings.*json",
             "reset -- file", "commit", "push", "push --set-upstream",
             "add -A", "reset --hard", "clean -fd", "push -f"}

Idle == pc = "idle"

Init ==
    /\ revision \in Revisions
    /\ workspaceOpen \in BOOLEAN
    /\ isRepo \in BOOLEAN
    /\ headBranch \in HeadBranches
    /\ additionalBaseBranches = <<>>
    /\ history = <<>>
    /\ pc = "idle" /\ op = NoOp /\ cmds = <<>> /\ errors = <<>>
    /\ infos = <<>> /\ refreshes = 0
    /\ logFails = FALSE
    /\ stdout = <<>>
    /\ listing = NotListed
    /\ parsed = NotParsed
    /\ RestInit

otherVars == <<stdout, logFails, listing, parsed, restVars>>

(*------------------------- the environment ------------------------------*)
\* git checkout from the command line, or a detached HEAD
SwitchBranch(b) ==
    /\ pc # "done"
    /\ b # headBranch
    /\ headBranch' = b
    /\ UNCHANGED <<revision, workspaceOpen, isRepo, additionalBaseBranches,
                   history, handlerVars, otherVars>>

\* a workspace folder is opened or closed.  A handler reads workspaceFolders
\* in its first statement only, so a change while it runs is a change after it.
WorkspaceChange ==
    /\ Idle
    /\ workspaceOpen' = ~workspaceOpen
    /\ UNCHANGED <<revision, isRepo, headBranch, additionalBaseBranches,
                   history, handlerVars, otherVars>>

\* git init / removal of .git.  A handler asks git rev-parse once, right
\* after it starts.
RepoChange ==
    /\ Idle
    /\ isRepo' = ~isRepo
    /\ UNCHANGED <<revision, workspaceOpen, headBranch, additionalBaseBranches,
                   history, handlerVars, otherVars>>

\* the user edits the additionalBaseBranches setting (the revision that has
\* it).  A handler reads the setting once, in one synchronous call.
SettingChange(v) ==
    /\ Idle
    /\ revision = "feat"
    /\ v # additionalBaseBranches
    /\ additionalBaseBranches' = v
    /\ UNCHANGED <<revision, workspaceOpen, isRepo, headBranch,
                   history, handlerVars, otherVars>>

(*----------------------- showErrorMessage texts -------------------------*)
ErrNotRepo == <<"This workspace is not a git repository">>
ErrNoWorkspace(prefix) == <<prefix, "No workspace folder is opened">>
ErrProtected == <<"Cannot force push to base branch">>
ErrCommand(prefix, cmd) == <<prefix, cmd>>
ErrGitOperation(prefix, cmd) == <<prefix, "Git operation failed: ", cmd>>
ErrPush(prefix, cmd) ==
    <<prefix, "Git operation failed: ", "Failed to push changes: ", cmd>>
FAILED_CREATE == "Failed to create milestone: "
FAILED_RESET == "Failed to reset to milestone: "
CREATED == "Milestone created successfully!"
REVERTED == "Successfully reset to milestone and updated remote"
YES_RESET == "Yes, Reset"

\* the promise of execAsync(cmd) is fulfilled (ok) or rejected
Rejected(cmd, ok) == IF ok THEN op ELSE [op EXCEPT !.failed = Append(@, cmd)]

\* the handler ends with an error message
Fail(msg) ==
    /\ errors' = Append(errors, msg)
    /\ pc' = "done"

\* the handler ends with the success message, updateStatusBar() and the
\* refresh of the tree view
Succeed(msg) ==
    /\ infos' = Append(infos, msg)
    /\ refreshes' = refreshes + 1
    /\ pc' = "done"

\* the promise of the handler settles
Return ==
    /\ pc = "done"
    /\ pc' = "idle"
    /\ op' = NoOp
    /\ cmds' = <<>> /\ errors' = <<>> /\ infos' = <<>> /\ refreshes' = 0
    /\ UNCHANGED <<envVars, history, otherVars>>

(*--------------------------- createMilestone ----------------------------*)
\* getWorkspacePath(), then isGitRepository is awaited
CreateStart ==
    /\ Idle
    /\ Len(history) < MaxCommits
    /\ op' = [Op("create") EXCEPT !.before = history]
    /\ cmds' = <<>> /\ infos' = <<>> /\ refreshes' = 0
    /\ IF workspaceOpen
       THEN errors' = <<>> /\ pc' = "c_isrepo"
       ELSE errors' = <<ErrNoWorkspace(FAILED_CREATE)>> /\ pc' = "done"
    /\ UNCHANGED <<envVars, history, otherVars>>

\* CreateIsRepo without the return after showErrorMessage
CreateIsRepo_NoReturn ==
    /\ pc = "c_isrepo"
    /\ cmds' = Append(cmds, "rev-parse")
    /\ op' = Rejected("rev-parse", isRepo)
    /\ errors' = IF isRepo THEN errors ELSE Append(errors, ErrNotRepo)
    /\ pc' = "c_prompt"
    /\ UNCHANGED <<envVars, history, infos, refreshes, otherVars>>

\* git rev-parse --is-inside-work-tree returns
CreateIsRepo ==
    /\ pc = "c_isrepo"
    /\ cmds' = Append(cmds, "rev-parse")
    /\ op' = Rejected("rev-parse", isRepo)
    /\ IF isRepo
       THEN pc' = "c_prompt" /\ errors' = errors
       ELSE Fail(ErrNotRepo)
    /\ UNCHANGED <<envVars, history, infos, refreshes, otherVars>>

\* CreatePrompt without the return on undefined
CreatePrompt_NoCancel(note) ==
    /\ pc = "c_prompt"
    /\ op' = [op EXCEPT !.note = note]
    /\ pc' = "c_branch"
    /\ UNCHANGED <<envVars, history, cmds, errors, infos, refreshes, otherVars>>

\* showInputBox returns the note, or undefined when the user cancels
CreatePrompt(note) ==
    /\ pc = "c_prompt"
    /\ op' = [op EXCEPT !.note = note]
    /\ pc' = IF note = Undef THEN "done" ELSE "c_branch"
    /\ UNCHANGED <<envVars, history, cmds, errors, infos, refreshes, otherVars>>

\* git symbolic-ref --short HEAD returns
CreateBranch ==
    /\ pc = "c_branch"
    /\ cmds' = Append(cmds, "symbolic-ref")
    /\ IF headBranch = Undef
       THEN /\ Fail(ErrCommand(FAILED_CREATE, "symbolic-ref"))
            /\ op' = Rejected("symbolic-ref", FALSE)
       ELSE /\ op' = [op EXCEPT !.branchName = RefOut(headBranch)]
            /\ pc' = "c_add"
            /\ errors' = errors
    /\ UNCHANGED <<envVars, history, infos, refreshes, otherVars>>

\* CreateGit without the inner catch that wraps the error
CreateGit_Unwrapped(at, cmd, next, ok) ==
    /\ pc = at
    /\ cmds' = Append(cmds, cmd)
    /\ IF ok
       THEN pc' = next /\ errors' = errors
       ELSE Fail(ErrCommand(FAILED_CREATE, cmd))
    /\ op' = Rejected(cmd, ok)
    /\ UNCHANGED <<envVars, history, infos, refreshes, otherVars>>

\* a git command of the inner try block returns; on failure the handler ends
\* with 'Failed to create milestone: Git operation failed: ...'
CreateGit(at, cmd, next, ok) ==
    /\ pc = at
    /\ cmds' = Append(cmds, cmd)
    /\ IF ok
       THEN pc' = next /\ errors' = errors
       ELSE Fail(ErrGitOperation(FAILED_CREATE, cmd))
    /\ op' = Rejected(cmd, ok)
    /\ UNCHANGED <<envVars, history, infos, refreshes, otherVars>>

\* git add .
CreateAdd(ok) ==
    CreateGit("c_add", "add .",
              IF revision = "feat" THEN "c_filter" ELSE "c_reset_log", ok)

\* git reset -- "*.log" (plain and tag revisions)
CreateResetLog(ok) ==
    CreateGit("c_reset_log", "reset -- *.log", "c_reset_app", ok)

\* git reset -- "appsettings.*json" (plain and tag revisions)
CreateResetApp(ok) ==
    CreateGit("c_reset_app", "reset -- appsettings.*json", "c_commit", ok)

\* the ways filterIgnoredFiles ends: before any git command (blank pattern,
\* or new RegExp throws), after git diff --cached --name-only (rejected, or
\* no staged path matches), after git reset -- "<file>" (fulfilled for every
\* matching path, or rejected for one)
FilterResults == {"skipped", "diff rejected", "no match", "unstaged",
                  "reset rejected"}

\* filterIgnoredFiles (feat revision), awaited by createMilestone; whatever
\* is thrown inside it is logged with console.error and not rethrown
CreateFilter(result) ==
    /\ pc = "c_filter"
    /\ cmds' = CASE result = "skipped" -> cmds
                 [] result \in {"diff rejected", "no match"} ->
                        Append(cmds, "diff --cached")
                 [] OTHER -> cmds \o <<"diff --cached", "reset -- file">>
    /\ op' = CASE result = "diff rejected" -> Rejected("diff --cached", FALSE)
               [] result = "reset rejected" -> Rejected("reset -- file", FALSE)
               [] OTHER -> op
    /\ pc' = "c_commit"
    /\ UNCHANGED <<envVars, history, errors, infos, refreshes, otherVars>>

\* CreateCommit whose commit does not reach the branch
CreateCommit_NotRecorded(ok) ==
    /\ pc = "c_commit"
    /\ cmds' = Append(cmds, "commit")
    /\ IF ok
       THEN pc' = "c_push" /\ errors' = errors
       ELSE Fail(ErrGitOperation(FAILED_CREATE, "commit"))
    /\ op' = Rejected("commit", ok)
    /\ UNCHANGED <<envVars, history, infos, refreshes, otherVars>>

\* git commit --allow-empty -m "<subject>"
CreateCommit(ok) ==
    /\ pc = "c_commit"
    /\ cmds' = Append(cmds, "commit")
    /\ IF ok
       THEN /\ history' = <<[subject |-> Encode(revision, op.note, op.branchName),
                             made |-> TRUE, note |-> op.note,
                             branch |-> Trim(op.branchName)]>> \o history
            /\ pc' = "c_push"
            /\ errors' = errors
       ELSE Fail(ErrGitOperation(FAILED_CREATE, "commit")) /\ history' = history
    /\ op' = Rejected("commit", ok)
    /\ UNCHANGED <<envVars, infos, refreshes, otherVars>>

\* CreatePush reporting the failure of git push at once
CreatePush_NoFallback(ok) ==
    /\ pc = "c_push"
    /\ cmds' = Append(cmds, "push")
    /\ IF ok
       THEN Succeed(CREATED) /\ errors' = errors
       ELSE /\ Fail(ErrGitOperation(FAILED_CREATE, "push"))
            /\ infos' = infos /\ refreshes' = refreshes
    /\ op' = Rejected("push", ok)
    /\ UNCHANGED <<envVars, history, otherVars>>

\* git push
CreatePush(ok) ==
    /\ pc = "c_push"
    /\ cmds' = Append(cmds, "push")
    /\ IF ok
       THEN Succeed(CREATED)
       ELSE pc' = "c_upstream" /\ infos' = infos /\ refreshes' = refreshes
    /\ op' = Rejected("push", ok)
    /\ UNCHANGED <<envVars, history, errors, otherVars>>

\* git push --set-upstream origin <branch>
CreateUpstream(ok) ==
    /\ pc = "c_upstream"
    /\ cmds' = Append(cmds, "push --set-upstream")
    /\ IF ok
       THEN Succeed(CREATED) /\ errors' = errors
       ELSE /\ Fail(ErrPush(FAILED_CREATE, "push --set-upstream"))
            /\ infos' = infos /\ refreshes' = refreshes
    /\ op' = [Rejected("push --set-upstream", ok)
                 EXCEPT !.pushTo = Trim(op.branchName)]
    /\ UNCHANGED <<envVars, history, otherVars>>

(*-------------------------- revertToMilestone ---------------------------*)
\* the command is run on the tree item of commit `target` of the history;
\* getWorkspacePath(), then isGitRepository is awaited
RevertStart(target) ==
    /\ Idle
    /\ op' = [Op("revert") EXCEPT !.target = target]
    /\ cmds' = <<>> /\ infos' = <<>> /\ refreshes' = 0
    /\ IF workspaceOpen
       THEN errors' = <<>> /\ pc' = "r_isrepo"
       ELSE errors' = <<ErrNoWorkspace(FAILED_RESET)>> /\ pc' = "done"
    /\ UNCHANGED <<envVars, history, otherVars>>

\* git rev-parse --is-inside-work-tree returns
RevertIsRepo ==
    /\ pc = "r_isrepo"
    /\ cmds' = Append(cmds, "rev-parse")
    /\ op' = Rejected("rev-parse", isRepo)
    /\ IF isRepo
       THEN pc' = "r_branch" /\ errors' = errors
       ELSE Fail(ErrNotRepo)
    /\ UNCHANGED <<envVars, history, infos, refreshes, otherVars>>

\* git symbolic-ref --short HEAD returns; the protected-branch check
RevertBranch ==
    /\ pc = "r_branch"
    /\ cmds' = Append(cmds, "symbolic-ref")
    /\ IF headBranch = Undef
       THEN /\ Fail(ErrCommand(FAILED_RESET, "symbolic-ref"))
            /\ op' = Rejected("symbolic-ref", FALSE)
       ELSE /\ op' = [op EXCEPT !.branchName = RefOut(headBranch),
                                !.setting = additionalBaseBranches]
            /\ IF IsBaseBranch(revision, Trim(RefOut(headBranch)),
                               additionalBaseBranches)
               THEN Fail(ErrProtected)
               ELSE pc' = "r_confirm" /\ errors' = errors
    /\ UNCHANGED <<envVars, history, infos, refreshes, otherVars>>

\* RevertConfirm without the return for an answer other than 'Yes, Reset'
RevertConfirm_NoReturn(answer) ==
    /\ pc = "r_confirm"
    /\ op' = [op EXCEPT !.answer = answer]
    /\ pc' = "r_add"
    /\ UNCHANGED <<envVars, history, cmds, errors, infos, refreshes, otherVars>>

\* the modal warning returns the button pressed, or undefined when dismissed
RevertConfirm(answer) ==
    /\ pc = "r_confirm"
    /\ op' = [op EXCEPT !.answer = answer]
    /\ pc' = IF answer = YES_RESET THEN "r_add" ELSE "done"
    /\ UNCHANGED <<envVars, history, cmds, errors, infos, refreshes, otherVars>>

\* a git command of the inner try block returns; on failure the handler ends
\* with 'Failed to reset to milestone: Git operation failed: ...'
RevertGit(at, cmd, next, ok) ==
    /\ pc = at
    /\ cmds' = Append(cmds, cmd)
    /\ IF ok
       THEN pc' = next /\ errors' = errors
       ELSE Fail(ErrGitOperation(FAILED_RESET, cmd))
    /\ op' = Rejected(cmd, ok)

\* git add -A
RevertAddAll(ok) ==
    /\ RevertGit("r_add", "add -A", "r_reset", ok)
    /\ UNCHANGED <<envVars, history, infos, refreshes, otherVars>>

\* git reset --hard <hash>: the commits newer than the target leave the branch
RevertReset(ok) ==
    /\ RevertGit("r_reset", "reset --hard", "r_clean", ok)
    /\ history' = IF ok THEN SubSeq(history, op.target, Len(history)) ELSE history
    /\ UNCHANGED <<envVars, infos, refreshes, otherVars>>

\* git clean -fd
RevertClean(ok) ==
    /\ RevertGit("r_clean", "clean -fd", "r_push", ok)
    /\ UNCHANGED <<envVars, history, infos, refreshes, otherVars>>

\* RevertPush naming the branch HEAD points to when the push starts
RevertPush_HeadBranch(ok) ==
    /\ pc = "r_push"
    /\ cmds' = Append(cmds, "push -f")
    /\ IF ok
       THEN Succeed(REVERTED) /\ errors' = errors
       ELSE /\ Fail(ErrGitOperation(FAILED_RESET, "push -f"))
            /\ infos' = infos /\ refreshes' = refreshes
    /\ op' = [Rejected("push -f", ok) EXCEPT !.pushTo = headBranch]
    /\ UNCHANGED <<envVars, history, otherVars>>

\* git push -f origin <branch>
RevertPush(ok) ==
    /\ pc = "r_push"
    /\ cmds' = Append(cmds, "push -f")
    /\ IF ok
       THEN Succeed(REVERTED) /\ errors' = errors
       ELSE /\ Fail(ErrGitOperation(FAILED_RESET, "push -f"))
            /\ infos' = infos /\ refreshes' = refreshes
    /\ op' = [Rejected("push -f", ok) EXCEPT !.pushTo = Trim(op.branchName)]
    /\ UNCHANGED <<envVars, history, otherVars>>

Next ==
    \/ \E b \in HeadBranches \cup {Undef} : SwitchBranch(b)
    \/ WorkspaceChange
    \/ RepoChange
    \/ \E v \in Settings : SettingChange(v)
    \/ CreateStart
    \/ CreateIsRepo
    \/ \E n \in Notes \cup {Undef} : CreatePrompt(n)
    \/ CreateBranch
    \/ \E ok \in BOOLEAN : CreateAdd(ok)
    \/ \E ok \in BOOLEAN : CreateResetLog(ok)
    \/ \E ok \in BOOLEAN : CreateResetApp(ok)
    \/ \E result \in FilterResults : CreateFilter(result)
    \/ \E ok \in BOOLEAN : CreateCommit(ok)
    \/ \E ok \in BOOLEAN : CreatePush(ok)
    \/ \E ok \in BOOLEAN : CreateUpstream(ok)
    \/ \E k \in 1..Len(history) : RevertStart(k)
    \/ RevertIsRepo
    \/ RevertBranch
    \/ \E answer \in {YES_RESET, "dismissed"} : RevertConfirm(answer)
    \/ \E ok \in BOOLEAN : RevertAddAll(ok)
    \/ \E ok \in BOOLEAN : RevertReset(ok)
    \/ \E ok \in BOOLEAN : RevertClean(ok)
    \/ \E ok \in BOOLEAN : RevertPush(ok)
    \/ Return

Spec == Init /\ [][Next]_vars

(***************************************************************************)
(* Claims about the command handlers (Spec)                                *)
(***************************************************************************)
Issued(cmd) == \E i \in 1..Len(cmds) : cmds[i] = cmd

\* the handler in flight has read the current branch
BranchRead == op.branchName # Undef

\* the lower-cased current branch equals the lower-cased 'master', 'main' or
\* a configured additional base branch
MatchesProtected ==
    LET protected == getBaseBranches(op.setting)
    IN \E i \in 1..Len(protected) :
           ToLowerCase(protected[i]) = ToLowerCase(Trim(op.branchName))

\* C1: revertToMilestone rejects every protected branch, matching
\* case-insensitively: it shows an error and issues none of git add -A,
\* git reset --hard, git clean -fd, git push -f; a branch that matches no
\* entry is not rejected by the check.
C1_RevertRejectsProtectedBranch ==
    (op.kind = "revert" /\ BranchRead) =>
        IF MatchesProtected
        THEN /\ pc = "done"
             /\ errors = <<ErrProtected>>
             /\ ~Issued("add -A") /\ ~Issued("reset --hard")
             /\ ~Issued("clean -fd") /\ ~Issued("push -f")
        ELSE \A i \in 1..Len(errors) : errors[i] # ErrProtected

C1_Witness ==
    /\ op.kind = "revert"
    /\ op.branchName = RefOut(MAIN_CAP)
    /\ pc = "done"
    /\ errors = <<ErrProtected>>

\* a precondition of the handler in flight failed: no workspace folder is
\* open, the workspace is no git repository, or (revert) the branch is
\* protected
PreconditionFailed ==
    \/ ~workspaceOpen
    \/ ~isRepo /\ Issued("rev-parse")
    \/ op.kind = "revert" /\ BranchRead /\ MatchesProtected

\* C2: when a precondition fails, createMilestone and revertToMilestone
\* report one error and end, with no repository-mutating git command and no
\* status-bar or view refresh.
C2_PreconditionFailureHasNoSideEffect ==
    (op.kind \in {"create", "revert"} /\ PreconditionFailed) =>
        /\ pc = "done"
        /\ Len(errors) = 1
        /\ infos = <<>>
        /\ refreshes = 0
        /\ \A i \in 1..Len(cmds) : cmds[i] \notin Mutating

C2_Witness ==
    /\ op.kind = "create"
    /\ ~isRepo
    /\ pc = "done"
    /\ cmds = <<"rev-parse">>
    /\ errors = <<ErrNotRepo>>

\* C3: on the branch 'master' or 'main' createMilestone is blocked: it
\* creates no commit and pushes nothing.
C3_CreateBlockedOnMainBranches ==
    (/\ op.kind = "create"
     /\ BranchRead
     /\ ToLowerCase(Trim(op.branchName)) \in {MASTER, MAIN})
        => /\ ~Issued("commit")
           /\ ~Issued("push")
           /\ ~Issued("push --set-upstream")

(*------------------------------ push fallback ---------------------------*)
Count(cmd) == Cardinality({i \in 1..Len(cmds) : cmds[i] = cmd})

LastCmd == IF cmds = <<>> THEN "none" ELSE cmds[Len(cmds)]

\* the handler in flight ended as a successful createMilestone does
CreatedOutcome ==
    /\ pc = "done"
    /\ infos = <<CREATED>>
    /\ refreshes = 1
    /\ errors = <<>>

\* C11: when git push fails in createMilestone, git push --set-upstream
\* origin <branch> is tried once, right after it; nothing is reported while the
\* fallback is pending; when the fallback succeeds the handler ends with the
\* success message and the refresh, as after a successful first push; when it
\* fails the handler ends with one error; no third push is made.
C11_PushFallbackOnce ==
    op.kind = "create" =>
        /\ Count("push") <= 1
        /\ Count("push --set-upstream") <= 1
        /\ Count("push -f") = 0
        /\ \A i \in 1..Len(cmds) :
              /\ cmds[i] = "push --set-upstream" => (i > 1 /\ cmds[i - 1] = "push")
              /\ cmds[i] = "push" =>
                    (i = Len(cmds) \/ cmds[i + 1] = "push --set-upstream")
        /\ pc = "c_upstream" <=> (LastCmd = "push" /\ pc # "done")
        /\ pc = "c_upstream" => (errors = <<>> /\ infos = <<>> /\ refreshes = 0)
        /\ (LastCmd = "push" /\ pc = "done") => CreatedOutcome
        /\ (LastCmd = "push --set-upstream") =>
              /\ pc = "done"
              /\ \/ CreatedOutcome
                 \/ /\ errors = <<ErrPush(FAILED_CREATE, "push --set-upstream")>>
                    /\ infos = <<>>
                    /\ refreshes = 0

C11_Witness ==
    /\ op.kind = "create"
    /\ Len(cmds) > 1
    /\ cmds[Len(cmds) - 1] = "push"
    /\ LastCmd = "push --set-upstream"
    /\ CreatedOutcome

(*--------------------------- order of creation --------------------------*)
IsPrefix(p, q) == Len(p) <= Len(q) /\ SubSeq(q, 1, Len(p)) = p

\* the git commands between git add . and git commit: two fixed resets
\* (plain and tag revisions), or what filterIgnoredFiles issued (feat)
Unstaging(rev) ==
    IF rev = "feat"
    THEN {<<>>, <<"diff --cached">>, <<"diff --cached", "reset -- file">>}
    ELSE {<<"reset -- *.log", "reset -- appsettings.*json">>}

\* the git commands of a createMilestone that runs to its last statement
CreateOrders(rev) ==
    {<<"rev-parse", "symbolic-ref", "add .">> \o u \o
     <<"commit", "push", "push --set-upstream">> : u \in Unstaging(rev)}

\* C21: createMilestone runs repository check, note prompt, branch read,
\* git add ., unstaging of ignored files, git commit --allow-empty and push
\* in this order; a cancelled prompt stops before git add, commit and push;
\* an empty note is committed as 'No note provided'; a failed add or commit
\* is followed by no push; the success message and the refresh come only
\* after a push (first or fallback) that succeeded.
C21_CreateStepOrder ==
    op.kind = "create" =>
        /\ \E full \in CreateOrders(revision) : IsPrefix(cmds, full)
        /\ op.note # Undef => Issued("rev-parse")
        /\ Issued("symbolic-ref") => op.note # Undef
        /\ (pc = "done" /\ op.note = Undef) => cmds \in {<<>>, <<"rev-parse">>}
        /\ (/\ Issued("commit")
            /\ \A i \in 1..Len(op.failed) : op.failed[i] # "commit"
            /\ op.note = <<>>) =>
              /\ history # <<>>
              /\ Includes(history[1].subject, NO_NOTE)
        /\ (\E i \in 1..Len(op.failed) : op.failed[i] \in {"add .", "commit"})
              => (~Issued("push") /\ ~Issued("push --set-upstream"))
        /\ (infos # <<>> \/ refreshes > 0) =>
              /\ CreatedOutcome
              /\ LastCmd \in {"push", "push --set-upstream"}
              /\ \A i \in 1..Len(op.failed) : op.failed[i] # LastCmd

\* an empty note was committed as 'No note provided' and pushed by the
\* fallback after git push failed
C21_Witness ==
    /\ op.kind = "create"
    /\ op.note = <<>>
    /\ CreatedOutcome
    /\ cmds \in CreateOrders(revision)
    /\ Includes(history[1].subject, NO_NOTE)
    /\ op.failed = <<"push">>

(*---------------------------- failed creation ---------------------------*)
\* createMilestone has ended with a 'Failed to create milestone: ...' error
CreateFailed ==
    /\ op.kind = "create"
    /\ pc = "done"
    /\ errors # <<>>
    /\ errors[1][1] = FAILED_CREATE

\* the git commit of the handler in flight was made
Committed == Issued("commit") /\ \A i \in 1..Len(op.failed) : op.failed[i] # "commit"

PrefixOf(kind) == IF kind = "create" THEN FAILED_CREATE ELSE FAILED_RESET

\* msg is '<prefix>Git operation failed: ...m'
Wrapped(msg, prefix, m) ==
    /\ Len(msg) >= 3
    /\ msg[1] = prefix
    /\ msg[2] = "Git operation failed: "
    /\ msg[Len(msg)] = m

\* C17 as stated: when a git command of createMilestone or revertToMilestone
\* (the probe of isGitRepository aside) failed with message m, the handler
\* ends having shown exactly one error, '<prefix>Git operation failed: ...m',
\* and no success message.
C17_EveryGitFailureWrapped ==
    (op.kind \in {"create", "revert"} /\ pc = "done") =>
        \A i \in 1..Len(op.failed) :
            op.failed[i] # "rev-parse" =>
                /\ Len(errors) = 1
                /\ Wrapped(errors[1], PrefixOf(op.kind), op.failed[i])
                /\ infos = <<>>

\* git commands whose failure is not what the user is told: the first push
\* (the fallback follows) and the commands of filterIgnoredFiles (logged)
Unreported == {"push", "diff --cached", "reset -- file"}

\* the error shown when git command m fails
ErrorFor(kind, m) ==
    CASE m = "rev-parse" -> ErrNotRepo
      [] m = "symbolic-ref" -> ErrCommand(PrefixOf(kind), m)
      [] m = "push --set-upstream" -> ErrPush(PrefixOf(kind), m)
      [] OTHER -> ErrGitOperation(PrefixOf(kind), m)

\* C17 (amended): a failed git command other than the first git push and the
\* commands of filterIgnoredFiles ends the handler with exactly one error and
\* no success message or refresh; the error is '<prefix>Git operation
\* failed: m' for a command of the inner try block ('...Failed to push
\* changes: m' for the fallback push), '<prefix>m' for git symbolic-ref and
\* 'This workspace is not a git repository' for git rev-parse; when only
\* unreported commands failed, no git failure is shown.
C17_FatalGitFailureReportedOnce ==
    op.kind \in {"create", "revert"} =>
        /\ \A i \in 1..Len(op.failed) :
              op.failed[i] \notin Unreported =>
                  /\ i = Len(op.failed)
                  /\ pc = "done"
                  /\ errors = <<ErrorFor(op.kind, op.failed[i])>>
                  /\ infos = <<>>
                  /\ refreshes = 0
        /\ (\A i \in 1..Len(op.failed) : op.failed[i] \in Unreported) =>
              \A j \in 1..Len(errors) :
                  errors[j] \in {ErrNoWorkspace(PrefixOf(op.kind)), ErrProtected}

C17_Witness ==
    /\ op.kind = "create"
    /\ pc = "done"
    /\ op.failed = <<"add .">>
    /\ errors = <<ErrGitOperation(FAILED_CREATE, "add .")>>
    /\ infos = <<>>

(*------------------------------- reversion ------------------------------*)
RevertSteps == <<"add -A", "reset --hard", "clean -fd", "push -f">>

\* the git commands issued after the protected-branch check
AfterCheck == SubSeq(cmds, 3, Len(cmds))

\* C19: revertToMilestone issues git add -A, git reset --hard, git clean -fd
\* and git push -f only after the modal warning returned exactly
\* 'Yes, Reset'; after any other answer it ends with no git mutation, no
\* message and no refresh.
C19_RevertNeedsConfirmation ==
    op.kind = "revert" =>
        /\ (\E i \in 1..Len(cmds) : cmds[i] \in Mutating) => op.answer = YES_RESET
        /\ op.answer \notin {"none", YES_RESET} =>
              /\ pc = "done"
              /\ \A i \in 1..Len(cmds) : cmds[i] \notin Mutating
              /\ errors = <<>>
              /\ infos = <<>>
              /\ refreshes = 0

C19_Witness ==
    /\ op.kind = "revert"
    /\ op.answer = "dismissed"
    /\ pc = "done"
    /\ cmds = <<"rev-parse", "symbolic-ref">>

\* C20: after the confirmation revertToMilestone runs git add -A, git reset
\* --hard <hash>, git clean -fd, git push -f origin <branch> in this order,
\* <branch> being the branch read before the prompt; a failing step is the
\* last step; the success message and the refresh come only after the four
\* steps succeeded.
C20_RevertStepOrder ==
    (op.kind = "revert" /\ op.answer = YES_RESET) =>
        /\ Len(AfterCheck) <= Len(RevertSteps)
        /\ AfterCheck = SubSeq(RevertSteps, 1, Len(AfterCheck))
        /\ op.failed # <<>> =>
              /\ pc = "done"
              /\ op.failed = <<LastCmd>>
              /\ infos = <<>> /\ refreshes = 0
        /\ (infos # <<>> \/ refreshes > 0) =>
              /\ AfterCheck = RevertSteps
              /\ op.failed = <<>>
              /\ infos = <<REVERTED>> /\ refreshes = 1
        /\ Issued("push -f") => op.pushTo = Trim(op.branchName)

C20_Witness ==
    /\ op.kind = "revert"
    /\ AfterCheck = RevertSteps
    /\ infos = <<REVERTED>>
    /\ op.pushTo = DEV
    /\ headBranch # DEV

(***************************************************************************)
(* SpecFilter: createMilestone of the feat revision with the index of the  *)
(* repository: git add ., filterIgnoredFiles step by step, git commit      *)
(***************************************************************************)
P_LOG == <<"a", ".", "l", "o", "g">>
P_LOG2 == <<"b", ".", "l", "o", "g">>
P_SRC == <<"x", ".", "t", "s">>
P_APP == <<"a", "p", "p", "s", "e", "t", "t", "i", "n", "g", "s", ".",
           "d", ".", "j", "s", "o", "n">>

\* the paths of the repository, in the order git lists them
PathOrder == <<P_LOG, P_APP, P_LOG2, P_SRC>>
Paths == {PathOrder[i] : i \in 1..Len(PathOrder)}

LOG_PATTERN == <<"\\", ".", "l", "o", "g", "$">>
BAD_PATTERN == <<"(">>
Patterns == {DEFAULT_PATTERN, LOG_PATTERN, BAD_PATTERN, <<>>}

DOT_LOG == <<".", "l", "o", "g">>
DOT_TMP == <<".", "t", "m", "p">>
DOT_JSON == <<".", "j", "s", "o", "n">>
APPSETTINGS_DOT == <<"a", "p", "p", "s", "e", "t", "t", "i", "n", "g", "s", ".">>

\* new RegExp(pattern) throws a SyntaxError
RegExpThrows(pattern) == pattern = BAD_PATTERN

\* new RegExp(pattern).test(file), for the patterns of Patterns
Test(pattern, file) ==
    CASE pattern = LOG_PATTERN -> EndsWith(file, DOT_LOG)
      [] pattern = DEFAULT_PATTERN ->
            \/ EndsWith(file, DOT_LOG)
            \/ EndsWith(file, DOT_TMP)
            \/ /\ EndsWith(file, DOT_JSON)
               /\ \E at \in 1..Len(file) :
                     /\ MatchesAt(file, APPSETTINGS_DOT, at)
                     /\ at + Len(APPSETTINGS_DOT) <= Len(file) - Len(DOT_JSON) + 1
      [] OTHER -> TRUE

\* stdout of git diff --cached --name-only
RECURSIVE NameOnly(_, _)
NameOnly(index, i) ==
    IF i > Len(PathOrder) THEN <<>>
    ELSE (IF PathOrder[i] \in index THEN PathOrder[i] \o LF ELSE <<>>)
         \o NameOnly(index, i + 1)

\* stagedFiles.split('\n').map(f => f.trim()).filter(f => f)
FileList(stagedFiles) ==
    LET lines == Split(stagedFiles, LF)
        NonEmpty(f) == f # <<>>
    IN SelectSeq([i \in 1..Len(lines) |-> Trim(lines[i])], NonEmpty)

\* fileList.filter(file => regex.test(file))
FilesToRemove(regex, stagedFiles) ==
    LET Matching(f) == Test(regex, f)
    IN SelectSeq(FileList(stagedFiles), Matching)

FilterInit ==
    /\ revision = "feat"
    /\ workspaceOpen = TRUE
    /\ isRepo = TRUE
    /\ headBranch = DEV
    /\ additionalBaseBranches = <<>>
    /\ history = <<>>
    /\ pc = "idle" /\ op = NoOp /\ cmds = <<>> /\ errors = <<>>
    /\ infos = <<>> /\ refreshes = 0
    /\ logFails = FALSE
    /\ stdout = <<>>
    /\ listing = NotListed
    /\ parsed = NotParsed
    /\ ignoredFilesPattern \in Patterns
    /\ worktree \in SUBSET Paths
    /\ staged = {}
    /\ committed = {}
    /\ filter = NoFilter
    /\ stored = NothingStored
    /\ writes = <<>>
    /\ WatcherIdle
    /\ UiIdle

filterRest == <<stdout, logFails, listing, parsed, settingsVars, watcherVars, uiVars>>

\* files are edited or created in the working tree
EditWorktree(path) ==
    /\ Idle
    /\ path \notin worktree
    /\ worktree' = worktree \cup {path}
    /\ UNCHANGED <<envVars, history, handlerVars, filterRest,
                   ignoredFilesPattern, staged, committed, filter>>

\* the ignoredFilesPattern setting is edited (settings.json takes any string)
SetIgnoredFilesPattern(pattern) ==
    /\ Idle
    /\ pattern # ignoredFilesPattern
    /\ ignoredFilesPattern' = pattern
    /\ UNCHANGED <<envVars, history, handlerVars, filterRest,
                   worktree, staged, committed, filter>>

\* git add .
StageAll(ok) ==
    /\ pc = "c_add"
    /\ cmds' = Append(cmds, "add .")
    /\ op' = Rejected("add .", ok)
    /\ IF ok
       THEN /\ staged' = staged \cup worktree
            /\ pc' = "f_pattern"
            /\ errors' = errors
       ELSE /\ Fail(ErrGitOperation(FAILED_CREATE, "add ."))
            /\ staged' = staged
    /\ UNCHANGED <<envVars, history, infos, refreshes, filterRest,
                   ignoredFilesPattern, worktree, committed, filter>>

\* filterIgnoredFiles up to its first await: the pattern is read; a blank
\* pattern returns; new RegExp may throw into the catch, which logs
FilterPattern ==
    /\ pc = "f_pattern"
    /\ IF Trim(ignoredFilesPattern) = <<>> \/ RegExpThrows(ignoredFilesPattern)
       THEN pc' = "c_commit" /\ filter' = NoFilter
       ELSE /\ filter' = [regex |-> ignoredFilesPattern, filesToRemove |-> <<>>]
            /\ pc' = "f_diff"
    /\ UNCHANGED <<envVars, history, op, cmds, errors, infos, refreshes,
                   filterRest, ignoredFilesPattern, worktree, staged, committed>>

\* git diff --cached --name-only returns
FilterDiff(ok) ==
    /\ pc = "f_diff"
    /\ cmds' = Append(cmds, "diff --cached")
    /\ op' = Rejected("diff --cached", ok)
    /\ LET stagedFiles == NameOnly(staged, 1)
           filesToRemove == FilesToRemove(filter.regex, stagedFiles)
       IN IF ok /\ Trim(stagedFiles) # <<>> /\ filesToRemove # <<>>
          THEN /\ filter' = [filter EXCEPT !.filesToRemove = filesToRemove]
               /\ pc' = "f_reset"
          ELSE pc' = "c_commit" /\ filter' = NoFilter
    /\ UNCHANGED <<envVars, history, errors, infos, refreshes, filterRest,
                   ignoredFilesPattern, worktree, staged, committed>>

\* git reset -- "<file>" returns for the next file of filesToRemove
FilterReset(ok) ==
    /\ pc = "f_reset"
    /\ cmds' = Append(cmds, "reset -- file")
    /\ op' = Rejected("reset -- file", ok)
    /\ staged' = IF ok THEN staged \ {Head(filter.filesToRemove)} ELSE staged
    /\ IF ok /\ Tail(filter.filesToRemove) # <<>>
       THEN /\ filter' = [filter EXCEPT !.filesToRemove = Tail(@)]
            /\ pc' = "f_reset"
       ELSE pc' = "c_commit" /\ filter' = NoFilter
    /\ UNCHANGED <<envVars, history, errors, infos, refreshes, filterRest,
                   ignoredFilesPattern, worktree, committed>>

\* git commit --allow-empty -m "feat: <note> saved as milestone"
CommitIndex(ok) ==
    /\ pc = "c_commit"
    /\ cmds' = Append(cmds, "commit")
    /\ op' = Rejected("commit", ok)
    /\ IF ok
       THEN /\ history' = <<[subject |-> Encode(revision, op.note, op.branchName),
                             made |-> TRUE, note |-> op.note,
                             branch |-> Trim(op.branchName)]>> \o history
            /\ committed' = staged
            /\ staged' = {}
            /\ worktree' = worktree \ staged
            /\ pc' = "c_push"
            /\ errors' = errors
       ELSE /\ Fail(ErrGitOperation(FAILED_CREATE, "commit"))
            /\ UNCHANGED <<history, committed, staged, worktree>>
    /\ UNCHANGED <<envVars, infos, refreshes, filterRest, ignoredFilesPattern,
                   filter>>

FilterNext ==
    \/ \E path \in Paths : EditWorktree(path)
    \/ \E pattern \in Patterns : SetIgnoredFilesPattern(pattern)
    \/ CreateStart
    \/ CreateIsRepo
    \/ \E n \in {<<"a">>, Undef} : CreatePrompt(n)
    \/ CreateBranch
    \/ \E ok \in BOOLEAN : StageAll(ok)
    \/ FilterPattern
    \/ \E ok \in BOOLEAN : FilterDiff(ok)
    \/ \E ok \in BOOLEAN : FilterReset(ok)
    \/ \E ok \in BOOLEAN : CommitIndex(ok)
    \/ \E ok \in BOOLEAN : CreatePush(ok)
    \/ \E ok \in BOOLEAN : CreateUpstream(ok)
    \/ Return

SpecFilter == FilterInit /\ [][FilterNext]_vars

(***************************************************************************)
(* Claims about the ignored files (SpecFilter)                             *)
(***************************************************************************)
\* the setting asks for `file` to be left out of milestone commits
Ignored(pattern, file) ==
    /\ Trim(pattern) # <<>>
    /\ ~RegExpThrows(pattern)
    /\ Test(pattern, file)

\* C12: when createMilestone issues git commit, no staged path matches the
\* configured ignoredFilesPattern, and the commit made holds none: every
\* matching path staged by git add . was unstaged before, whatever the
\* pattern and whichever git command of the filter step failed.
C12_IgnoredFilesUnstagedBeforeCommit ==
    op.kind = "create" =>
        /\ pc = "c_commit" =>
              \A file \in staged : ~Ignored(ignoredFilesPattern, file)
        /\ (Issued("commit") /\ \A i \in 1..Len(op.failed) : op.failed[i] # "commit")
              => \A file \in committed : ~Ignored(ignoredFilesPattern, file)

(***************************************************************************)
(* SpecSettings: configureBaseBranches, configureIgnoredFiles and          *)
(* updateBaseBranchesFromWebview (src/unnamed/part_005, revision           *)
(* "webview") writing the settings                                         *)
(***************************************************************************)
ConfigKinds == {"configureBaseBranches", "configureIgnoredFiles",
                "updateBaseBranchesFromWebview"}

KeyOf(kind) ==
    IF kind = "configureIgnoredFiles"
    THEN "ignoredFilesPattern" ELSE "additionalBaseBranches"

FAILED_BRANCHES == "Failed to update base branches: "
FAILED_PATTERN == "Failed to update ignored files pattern: "
UNABLE_TO_SAVE == "Unable to save settings to workspace or global configuration: "

ConfigPrefix(kind) ==
    IF kind = "configureIgnoredFiles" THEN FAILED_PATTERN ELSE FAILED_BRANCHES

\* 'Base branches updated (workspace)...', 'Ignored files pattern updated
\* (global)...'
Updated(kind, scope) == <<KeyOf(kind), " updated ", scope>>

\* values the input box (or the webview) hands to the handler; validateInput
\* lets no invalid regular expression through
NewValues(kind) ==
    IF kind = "configureIgnoredFiles"
    THEN {<<>>, LOG_PATTERN} ELSE Settings

\* config.get(key, default): the workspace value, else the user's, else the
\* default
Effective(store, key, default) ==
    IF store["workspace"][key] # Undef THEN store["workspace"][key]
    ELSE IF store["global"][key] # Undef THEN store["global"][key]
    ELSE default

SettingsInit ==
    /\ revision \in {"feat", "webview"}
    /\ workspaceOpen \in BOOLEAN
    /\ isRepo = TRUE
    /\ headBranch = DEV
    /\ additionalBaseBranches = <<>>
    /\ history = <<>>
    /\ pc = "idle" /\ op = NoOp /\ cmds = <<>> /\ errors = <<>>
    /\ infos = <<>> /\ refreshes = 0
    /\ logFails = FALSE
    /\ stdout = <<>>
    /\ listing = NotListed
    /\ parsed = NotParsed
    /\ ignoredFilesPattern = DEFAULT_PATTERN
    /\ worktree = {}
    /\ staged = {}
    /\ committed = {}
    /\ filter = NoFilter
    /\ stored = NothingStored
    /\ writes = <<>>
    /\ WatcherIdle
    /\ UiIdle

settingsRest == <<revision, workspaceOpen, isRepo, headBranch, history, cmds,
                  stdout, logFails, listing, parsed, worktree, staged,
                  committed, filter, watcherVars, uiVars>>

\* the command is run: the current value is read and the input box opens
ConfigureStart(kind) ==
    /\ Idle
    /\ kind = "configureIgnoredFiles" => revision = "feat"
    /\ op' = Op(kind)
    /\ pc' = "s_prompt"
    /\ writes' = <<>> /\ errors' = <<>> /\ infos' = <<>> /\ refreshes' = 0
    /\ UNCHANGED <<settingsRest, additionalBaseBranches, ignoredFilesPattern,
                   stored>>

\* showInputBox returns the text, or undefined when the user cancels
ConfigurePrompt(newValue) ==
    /\ pc = "s_prompt"
    /\ op' = [op EXCEPT !.newValue = newValue]
    /\ pc' = IF newValue = Undef THEN "done" ELSE "s_workspace"
    /\ UNCHANGED <<settingsRest, additionalBaseBranches, ignoredFilesPattern,
                   stored, writes, errors, infos, refreshes>>

\* the webview posts 'updateBaseBranches' with the text of its field
WebviewUpdate(newValue) ==
    /\ Idle
    /\ revision = "webview"
    /\ op' = [Op("updateBaseBranchesFromWebview") EXCEPT !.newValue = newValue]
    /\ pc' = "s_workspace"
    /\ writes' = <<>> /\ errors' = <<>> /\ infos' = <<>> /\ refreshes' = 0
    /\ UNCHANGED <<settingsRest, additionalBaseBranches, ignoredFilesPattern,
                   stored>>

\* config.update(key, newValue, scope) is fulfilled (ok) or rejected
Update(scope, ok) ==
    LET key == KeyOf(op.kind)
        store == IF ok THEN [stored EXCEPT ![scope][key] = op.newValue]
                 ELSE stored
    IN /\ writes' = Append(writes, [scope |-> scope, key |-> key,
                                    value |-> op.newValue, ok |-> ok])
       /\ stored' = store
       /\ additionalBaseBranches' =
              Effective(store, "additionalBaseBranches", <<>>)
       /\ ignoredFilesPattern' =
              Effective(store, "ignoredFilesPattern", DEFAULT_PATTERN)

\* UpdateWorkspace reporting the rejection at once, with no second attempt
UpdateWorkspace_NoFallback(ok) ==
    /\ pc = "s_workspace"
    /\ ok => workspaceOpen
    /\ Update("workspace", ok)
    /\ IF ok
       THEN Succeed(Updated(op.kind, "workspace")) /\ errors' = errors
       ELSE /\ Fail(<<ConfigPrefix(op.kind), UNABLE_TO_SAVE>>)
            /\ infos' = infos /\ refreshes' = refreshes
    /\ UNCHANGED <<settingsRest, op>>

\* config.update(key, newValue, ConfigurationTarget.Workspace) returns; it is
\* rejected when no workspace is open; on success the message is shown and
\* the view refreshed
UpdateWorkspace(ok) ==
    /\ pc = "s_workspace"
    /\ ok => workspaceOpen
    /\ Update("workspace", ok)
    /\ IF ok
       THEN Succeed(Updated(op.kind, "workspace"))
       ELSE pc' = "s_global" /\ infos' = infos /\ refreshes' = refreshes
    /\ UNCHANGED <<settingsRest, op, errors>>

\* config.update(key, newValue, ConfigurationTarget.Global) returns
UpdateGlobal(ok) ==
    /\ pc = "s_global"
    /\ Update("global", ok)
    /\ IF ok
       THEN Succeed(Updated(op.kind, "global")) /\ errors' = errors
       ELSE /\ Fail(<<ConfigPrefix(op.kind), UNABLE_TO_SAVE>>)
            /\ infos' = infos /\ refreshes' = refreshes
    /\ UNCHANGED <<settingsRest, op>>

\* the promise of the handler settles
SettingsReturn ==
    /\ pc = "done"
    /\ pc' = "idle"
    /\ op' = NoOp
    /\ writes' = <<>> /\ errors' = <<>> /\ infos' = <<>> /\ refreshes' = 0
    /\ UNCHANGED <<settingsRest, additionalBaseBranches, ignoredFilesPattern,
                   stored>>

SettingsNext ==
    \/ \E kind \in {"configureBaseBranches", "configureIgnoredFiles"} :
          ConfigureStart(kind)
    \/ \E v \in NewValues(op.kind) \cup {Undef} : ConfigurePrompt(v)
    \/ \E v \in Settings : WebviewUpdate(v)
    \/ \E ok \in BOOLEAN : UpdateWorkspace(ok)
    \/ \E ok \in BOOLEAN : UpdateGlobal(ok)
    \/ SettingsReturn

SpecSettings == SettingsInit /\ [][SettingsNext]_vars

(***************************************************************************)
(* Claims about the configuration writes (SpecSettings)                    *)
(***************************************************************************)
\* C18: a configuration handler first tries config.update at workspace
\* scope; it tries the global scope exactly when the workspace update was
\* rejected; it shows an error only when both were rejected; a cancelled
\* input box writes nothing.
C18_ConfigWriteFallsBackToGlobal ==
    op.kind \in ConfigKinds =>
        /\ Len(writes) <= 2
        /\ \A i \in 1..Len(writes) :
              /\ writes[i].key = KeyOf(op.kind)
              /\ writes[i].value = op.newValue
              /\ writes[i].scope = IF i = 1 THEN "workspace" ELSE "global"
        /\ Len(writes) = 2 => ~writes[1].ok
        /\ (Len(writes) = 1 /\ ~writes[1].ok) => pc = "s_global"
        /\ (Len(writes) = 1 /\ writes[1].ok) => pc = "done"
        /\ errors # <<>> <=>
              (Len(writes) = 2 /\ ~writes[1].ok /\ ~writes[2].ok)
        /\ Len(errors) <= 1
        /\ infos # <<>> <=> \E i \in 1..Len(writes) : writes[i].ok
        /\ (pc = "done" /\ op.newValue = Undef) =>
              (writes = <<>> /\ errors = <<>> /\ infos = <<>> /\ refreshes = 0)

C18_Witness ==
    /\ op.kind = "updateBaseBranchesFromWebview"
    /\ Len(writes) = 2
    /\ ~writes[1].ok /\ writes[2].ok
    /\ stored["global"]["additionalBaseBranches"] = DEV_REL
    /\ stored["workspace"]["additionalBaseBranches"] = Undef
    /\ errors = <<>>
    /\ pc = "done"

(***************************************************************************)
(* SpecWatcher: the routines the feat revision starts without awaiting     *)
(* them: updateStatusBar, updateCurrentBranch, handleBranchChange and the  *)
(* getChildren call that follows a refresh of the tree.  Every routine in  *)
(* flight is awaiting one git subprocess; the subprocess reads HEAD at     *)
(* some moment of its run and the routine goes on when it exits.           *)
(***************************************************************************)
\* the git subprocess of a routine has not read the repository yet
Unread == [head |-> <<"unread">>, epoch |-> 0]

Task(kind, at) == [kind |-> kind, pc |-> at, val |-> Unread]

\* the awaits whose git command prints something that depends on HEAD
Sampling == {"ucb_ref", "hbc_ref", "usb_log", "gc_log"}

Remove(seq, i) == SubSeq(seq, 1, i - 1) \o SubSeq(seq, i + 1, Len(seq))

\* branchName.trim() of git symbolic-ref's output
BranchOf(head) == Trim(RefOut(head))

\* this.updateStatusBar(); this.refreshTreeView(); neither is awaited:
\* updateStatusBar runs up to its first await (git rev-parse is spawned),
\* the tree is told to ask for its children again
RefreshViews(ts) == Append(ts, Task("updateStatusBar", "usb_revparse"))

\* the constructor has run in an open workspace whose .git/HEAD exists:
\* initializeViews, updateStatusBar(), setupBranchWatcher() -> 
\* updateCurrentBranch() and fs.watchFile
WatcherInit ==
    /\ revision = "feat"
    /\ workspaceOpen = TRUE
    /\ isRepo = TRUE
    /\ headBranch \in {DEV, FIX}
    /\ additionalBaseBranches = <<>>
    /\ history = <<>>
    /\ pc = "idle" /\ op = NoOp /\ cmds = <<>> /\ errors = <<>>
    /\ infos = <<>> /\ refreshes = 0
    /\ logFails = FALSE
    /\ stdout = <<>>
    /\ listing = NotListed
    /\ parsed = NotParsed
    /\ ignoredFilesPattern = DEFAULT_PATTERN
    /\ worktree = {}
    /\ staged = {}
    /\ committed = {}
    /\ filter = NoFilter
    /\ stored = NothingStored
    /\ writes = <<>>
    /\ tasks = <<Task("updateStatusBar", "usb_revparse"),
                 Task("updateCurrentBranch", "ucb_ref")>>
    /\ thisCurrentBranch = JsNull
    /\ cacheAge = [epoch |-> 0, newest |-> 0]
    /\ headEpoch = 0
    /\ changed = FALSE
    /\ treeDirty = TRUE
    /\ views = NoViews
    /\ UiIdle

watcherRest == <<revision, workspaceOpen, isRepo, additionalBaseBranches,
                 history, handlerVars, stdout, logFails, listing, parsed,
                 filterVars, settingsVars, uiVars>>

\* git checkout of a branch or of a commit (detached HEAD, also from one
\* commit to another), by any program: .git/HEAD is rewritten
SwitchHead(b) ==
    /\ headEpoch < MaxSwitches
    /\ b # headBranch \/ b = Undef
    /\ headBranch' = b
    /\ headEpoch' = headEpoch + 1
    /\ changed' = TRUE
    /\ UNCHANGED <<watcherRest, tasks, thisCurrentBranch, cacheAge, treeDirty,
                   views>>

\* fs.watchFile polls, sees the new mtime and calls the listener, which
\* runs handleBranchChange up to its await of git symbolic-ref
WatcherFires ==
    /\ changed
    /\ Len(tasks) < MaxTasks
    /\ changed' = FALSE
    /\ tasks' = Append(tasks, Task("handleBranchChange", "hbc_ref"))
    /\ UNCHANGED <<watcherRest, headBranch, thisCurrentBranch, cacheAge,
                   headEpoch, treeDirty, views>>

\* the git subprocess of routine i reads HEAD
GitReads(i) ==
    /\ tasks[i].pc \in Sampling
    /\ tasks[i].val = Unread
    /\ tasks' = [tasks EXCEPT ![i].val = [head |-> headBranch,
                                          epoch |-> headEpoch]]
    /\ UNCHANGED <<watcherRest, headBranch, thisCurrentBranch, cacheAge,
                   headEpoch, changed, treeDirty, views>>

\* this.currentBranch = value, read from HEAD as it was at `epoch`
Store(value, epoch) ==
    /\ thisCurrentBranch' = value
    /\ cacheAge' = [epoch |-> epoch,
                    newest |-> IF epoch > cacheAge.newest
                               THEN epoch ELSE cacheAge.newest]

\* updateCurrentBranch goes on after git symbolic-ref; a rejection (detached
\* HEAD) lands in its catch
UpdateCurrentBranchDone(i) ==
    /\ tasks[i].pc = "ucb_ref"
    /\ tasks[i].val # Unread
    /\ LET v == tasks[i].val
       IN Store(IF v.head = Undef THEN JsNull ELSE BranchOf(v.head), v.epoch)
    /\ tasks' = Remove(tasks, i)
    /\ UNCHANGED <<watcherRest, headBranch, headEpoch, changed, treeDirty,
                   views>>

\* HandleBranchChangeDone storing the branch and refreshing without the
\* comparison with this.currentBranch
HandleBranchChangeDone_NoCheck(i) ==
    /\ tasks[i].pc = "hbc_ref"
    /\ tasks[i].val # Unread
    /\ LET v == tasks[i].val
       IN Store(IF v.head = Undef THEN JsNull ELSE BranchOf(v.head), v.epoch)
    /\ tasks' = RefreshViews(Remove(tasks, i))
    /\ treeDirty' = TRUE
    /\ UNCHANGED <<watcherRest, headBranch, headEpoch, changed, views>>

\* handleBranchChange goes on after git symbolic-ref: check-then-set of
\* this.currentBranch, and the refresh of the two views when it changed
HandleBranchChangeDone(i) ==
    /\ tasks[i].pc = "hbc_ref"
    /\ tasks[i].val # Unread
    /\ LET v == tasks[i].val
           refresh == IF v.head = Undef
                      THEN thisCurrentBranch # JsNull
                      ELSE thisCurrentBranch # BranchOf(v.head)
       IN IF refresh
          THEN /\ Store(IF v.head = Undef THEN JsNull ELSE BranchOf(v.head),
                        v.epoch)
               /\ tasks' = RefreshViews(Remove(tasks, i))
               /\ treeDirty' = TRUE
          ELSE /\ tasks' = Remove(tasks, i)
               /\ UNCHANGED <<thisCurrentBranch, cacheAge, treeDirty>>
    /\ UNCHANGED <<watcherRest, headBranch, headEpoch, changed, views>>

\* updateStatusBar: isGitRepository returns; getCurrentMilestone ->
\* getMilestones spawns git log
UsbRevParseDone(i) ==
    /\ tasks[i].pc = "usb_revparse"
    /\ IF isRepo
       THEN tasks' = [tasks EXCEPT ![i].pc = "usb_log"] /\ views' = views
       ELSE /\ tasks' = Remove(tasks, i)
            /\ views' = [views EXCEPT !.status = <<"Not a git repository">>]
    /\ UNCHANGED <<watcherRest, headBranch, thisCurrentBranch, cacheAge,
                   headEpoch, changed, treeDirty>>

\* updateStatusBar: getCurrentMilestone returns; hasMilestones spawns git log
UsbLogDone(i) ==
    /\ tasks[i].pc = "usb_log"
    /\ tasks[i].val # Unread
    /\ tasks' = [tasks EXCEPT ![i].pc = "usb_has"]
    /\ UNCHANGED <<watcherRest, headBranch, thisCurrentBranch, cacheAge,
                   headEpoch, changed, treeDirty, views>>

\* updateStatusBar: hasMilestones returns; the text of the status bar item is
\* set from the milestones read
UsbHasDone(i) ==
    /\ tasks[i].pc = "usb_has"
    /\ views' = [views EXCEPT !.status = tasks[i].val.head]
    /\ tasks' = Remove(tasks, i)
    /\ UNCHANGED <<watcherRest, headBranch, thisCurrentBranch, cacheAge,
                   headEpoch, changed, treeDirty>>

\* the tree view reacts to onDidChangeTreeData: getChildren of the
\* 'milestones' item awaits getMilestones, which spawns git log
GetChildrenStart ==
    /\ treeDirty
    /\ Len(tasks) < MaxTasks
    /\ treeDirty' = FALSE
    /\ tasks' = Append(tasks, Task("getChildren", "gc_log"))
    /\ UNCHANGED <<watcherRest, headBranch, thisCurrentBranch, cacheAge,
                   headEpoch, changed, views>>

\* getChildren returns the items of the milestones read
GetChildrenDone(i) ==
    /\ tasks[i].pc = "gc_log"
    /\ tasks[i].val # Unread
    /\ views' = [views EXCEPT !.tree = tasks[i].val.head]
    /\ tasks' = Remove(tasks, i)
    /\ UNCHANGED <<watcherRest, headBranch, thisCurrentBranch, cacheAge,
                   headEpoch, changed, treeDirty>>

\* onDidChangeWorkspaceFolders: updateStatusBar(), refreshTreeView(),
\* setupBranchWatcher() -> updateCurrentBranch(), none awaited
WorkspaceFoldersChanged ==
    /\ Len(tasks) + 2 <= MaxTasks
    /\ tasks' = Append(RefreshViews(tasks),
                       Task("updateCurrentBranch", "ucb_ref"))
    /\ treeDirty' = TRUE
    /\ UNCHANGED <<watcherRest, headBranch, thisCurrentBranch, cacheAge,
                   headEpoch, changed, views>>

\* createMilestone or revertToMilestone reaches its success message:
\* updateStatusBar() and refreshTreeView(), not awaited
HandlerSucceeded ==
    /\ Len(tasks) < MaxTasks
    /\ tasks' = RefreshViews(tasks)
    /\ treeDirty' = TRUE
    /\ UNCHANGED <<watcherRest, headBranch, thisCurrentBranch, cacheAge,
                   headEpoch, changed, views>>

WatcherNext ==
    \/ \E b \in {DEV, FIX, Undef} : SwitchHead(b)
    \/ WatcherFires
    \/ \E i \in 1..Len(tasks) : GitReads(i)
    \/ \E i \in 1..Len(tasks) : UpdateCurrentBranchDone(i)
    \/ \E i \in 1..Len(tasks) : HandleBranchChangeDone(i)
    \/ \E i \in 1..Len(tasks) : UsbRevParseDone(i)
    \/ \E i \in 1..Len(tasks) : UsbLogDone(i)
    \/ \E i \in 1..Len(tasks) : UsbHasDone(i)
    \/ GetChildrenStart
    \/ \E i \in 1..Len(tasks) : GetChildrenDone(i)
    \/ WorkspaceFoldersChanged
    \/ HandlerSucceeded

SpecWatcher == WatcherInit /\ [][WatcherNext]_vars

(***************************************************************************)
(* Claims about the routines in flight (SpecWatcher)                       *)
(***************************************************************************)
\* every routine in flight awaits one running git subprocess
GitInFlight == Len(tasks)

\* C14: at most one git subprocess started by the extension is in flight,
\* at activation, after a successful create or revert, and when the HEAD
\* watcher fires.
C14_OneGitAtATime == GitInFlight <= 1

WritersInFlight ==
    Cardinality({i \in 1..Len(tasks) :
                    tasks[i].kind \in {"updateCurrentBranch",
                                       "handleBranchChange"}})

\* C15: at most one routine writing this.currentBranch is in flight, and
\* this.currentBranch is never older than a branch name stored before.
C15_SingleWriterOfCurrentBranch ==
    /\ WritersInFlight <= 1
    /\ cacheAge.epoch = cacheAge.newest

\* nothing is in flight or pending: the watcher has polled since the last
\* change of HEAD, its callback and every refresh it triggered have finished
Quiescent == tasks = <<>> /\ ~changed /\ ~treeDirty

\* C16: once the watcher callback for a change of HEAD has run to
\* completion and nothing is pending, this.currentBranch is the branch HEAD
\* points to (null when detached) and the tree and the status bar show the
\* milestones of that HEAD.
C16_BranchSwitchRefreshesViews ==
    (Quiescent /\ headEpoch > 0) =>
        /\ thisCurrentBranch =
              (IF headBranch = Undef THEN JsNull ELSE BranchOf(headBranch))
        /\ views.tree = headBranch
        /\ views.status = headBranch

(***************************************************************************)
(* Exceptions and the try blocks of the handlers (README.md, JavaScript)   *)
(*                                                                         *)
(* A routine is the sequence of its steps; each step names the catch block *)
(* of the innermost try block around it ("" when it is outside every try   *)
(* block of the routine).  tasks is the chain of routines awaiting one     *)
(* another, the one running last.                                          *)
(***************************************************************************)
St(do, arg, catch) == [label |-> "", do |-> do, arg |-> arg, catch |-> catch]
Lb(label, step) == [step EXCEPT !.label = label]

Steps_isGitRepository ==
    << St("git", "rev-parse", "catch"),
       St("return", "true", ""),
       Lb("catch", St("return", "false", "")) >>

Steps_getMilestones ==
    << St("wp", "", "catch"),
       St("git", "log", "catch"),
       St("return", "value", ""),
       Lb("catch", St("return", "default", "")) >>

Steps_getCurrentMilestone ==
    << St("call", "getMilestones", "catch"),
       St("return", "value", ""),
       Lb("catch", St("return", "default", "")) >>

Steps_hasMilestones ==
    << St("wp", "", ""),
       St("git", "log -n 1", "catch"),
       St("return", "value", ""),
       Lb("catch", St("return", "false", "")) >>

\* updateStatusBar with the call of hasMilestones after its try block
Steps_updateStatusBar_HasMilestonesOutsideTry ==
    << St("wp", "", "boundary"),
       St("call", "isGitRepository", "boundary"),
       St("ifnot", "not a repository", "boundary"),
       St("call", "getCurrentMilestone", "boundary"),
       St("call", "hasMilestones", ""),
       St("set", "status", "boundary"),
       St("return", "void", ""),
       Lb("not a repository", St("set", "Not a git repository", "boundary")),
       St("return", "void", ""),
       Lb("boundary", St("set", "Error", "")),
       St("return", "void", "") >>

Steps_updateStatusBar ==
    << St("wp", "", "boundary"),
       St("call", "isGitRepository", "boundary"),
       St("ifnot", "not a repository", "boundary"),
       St("call", "getCurrentMilestone", "boundary"),
       St("call", "hasMilestones", "boundary"),
       St("set", "status", "boundary"),
       St("return", "void", ""),
       Lb("not a repository", St("set", "Not a git repository", "boundary")),
       St("return", "void", ""),
       Lb("boundary", St("set", "Error", "")),
       St("return", "void", "") >>

Steps_filterIgnoredFiles ==
    << St("choice", "return", "catch"),
       St("regexp", "", "catch"),
       St("git", "diff --cached", "catch"),
       St("choice", "return", "catch"),
       Lb("loop", St("choice", "return", "catch")),
       St("git", "reset -- file", "catch"),
       St("goto", "loop", "catch"),
       Lb("return", St("return", "void", "")),
       Lb("catch", St("return", "void", "")) >>

Steps_createMilestone ==
    << St("wp", "", "boundary"),
       St("call", "isGitRepository", "boundary"),
       St("ifnot", "not a repository", "boundary"),
       St("choice", "return", "boundary"),
       St("git", "symbolic-ref", "boundary"),
       St("git", "add .", "inner"),
       St("call", "filterIgnoredFiles", "inner"),
       St("git", "commit", "inner"),
       St("git", "push", "fallback"),
       Lb("pushed", St("info", "Milestone created successfully!", "inner")),
       St("return", "void", ""),
       Lb("fallback", St("git", "push --set-upstream", "push failed")),
       St("goto", "pushed", "inner"),
       Lb("push failed", St("throw", "Failed to push changes", "inner")),
       Lb("inner", St("throw", "Git operation failed", "boundary")),
       Lb("boundary", St("error", "Failed to create milestone", "")),
       St("return", "void", ""),
       Lb("not a repository",
          St("error", "This workspace is not a git repository", "boundary")),
       Lb("return", St("return", "void", "")) >>

Steps_revertToMilestone ==
    << St("wp", "", "boundary"),
       St("call", "isGitRepository", "boundary"),
       St("ifnot", "not a repository", "boundary"),
       St("git", "symbolic-ref", "boundary"),
       St("choice", "base branch", "boundary"),
       St("choice", "return", "boundary"),
       St("git", "add -A", "inner"),
       St("git", "reset --hard", "inner"),
       St("git", "clean -fd", "inner"),
       St("git", "push -f", "inner"),
       St("info", "Successfully reset to milestone", "inner"),
       St("return", "void", ""),
       Lb("inner", St("throw", "Git operation failed", "boundary")),
       Lb("boundary", St("error", "Failed to reset to milestone", "")),
       St("return", "void", ""),
       Lb("not a repository",
          St("error", "This workspace is not a git repository", "boundary")),
       St("return", "void", ""),
       Lb("base branch",
          St("error", "Cannot force push to base branch", "boundary")),
       Lb("return", St("return", "void", "")) >>

Steps_refresh ==
    << St("call", "updateStatusBar", "boundary"),
       St("info", "Milestones refreshed", "boundary"),
       St("return", "void", ""),
       Lb("boundary", St("error", "Failed to refresh milestones", "")),
       St("return", "void", "") >>

\* configureBaseBranches and configureIgnoredFiles, which differ in the
\* key and in the texts
Steps_configure(failedText) ==
    << St("choice", "return", "boundary"),
       St("update", "Workspace", "global"),
       St("info", "updated (workspace)", "global"),
       Lb("updated", St("goto", "return", "boundary")),
       Lb("global", St("update", "Global", "unable")),
       St("info", "updated (global)", "unable"),
       St("goto", "updated", "boundary"),
       Lb("unable", St("throw", "Unable to save settings", "boundary")),
       Lb("boundary", St("error", failedText, "")),
       Lb("return", St("return", "void", "")) >>

Steps_handleBranchChange ==
    << St("wp", "", "boundary"),
       St("git", "symbolic-ref", "boundary"),
       St("choice", "return", "boundary"),
       St("set", "currentBranch", "boundary"),
       St("return", "void", ""),
       Lb("boundary", St("ifnull", "return", "")),
       St("set", "null", ""),
       Lb("return", St("return", "void", "")) >>

Steps_getMilestoneChildren ==
    << St("call", "getMilestones", ""),
       St("return", "value", "") >>

Steps_getChildren ==
    << St("choice", "return", ""),
       St("call", "getMilestoneChildren", ""),
       Lb("return", St("return", "value", "")) >>

Body(fn) ==
    CASE fn = "isGitRepository" -> Steps_isGitRepository
      [] fn = "getMilestones" -> Steps_getMilestones
      [] fn = "getCurrentMilestone" -> Steps_getCurrentMilestone
      [] fn = "hasMilestones" -> Steps_hasMilestones
      [] fn = "updateStatusBar" -> Steps_updateStatusBar
      [] fn = "filterIgnoredFiles" -> Steps_filterIgnoredFiles
      [] fn = "createMilestone" -> Steps_createMilestone
      [] fn = "revertToMilestone" -> Steps_revertToMilestone
      [] fn = "refresh" -> Steps_refresh
      [] fn = "configureBaseBranches" ->
             Steps_configure("Failed to update base branches")
      [] fn = "configureIgnoredFiles" ->
             Steps_configure("Failed to update ignored files pattern")
      [] fn = "handleBranchChange" -> Steps_handleBranchChange
      [] fn = "getMilestoneChildren" -> Steps_getMilestoneChildren
      [] fn = "getChildren" -> Steps_getChildren

\* the operations whose promise nobody awaits: commands, the watcher
\* callback, the status bar update and the tree data provider
Handlers ==
    {"createMilestone", "revertToMilestone", "refresh",
     "configureBaseBranches", "configureIgnoredFiles", "handleBranchChange",
     "updateStatusBar", "getChildren"}

Frame(fn) == [kind |-> fn, pc |-> 1, val |-> "void"]

\* position of a label in a routine
LabelAt(fn, label) ==
    CHOOSE i \in 1..Len(Body(fn)) : Body(fn)[i].label = label

Top == tasks[Len(tasks)]
Cur == Body(Top.kind)[Top.pc]
Advance(st) == [st EXCEPT ![Len(st)].pc = @ + 1]
Jump(st, label) == [st EXCEPT ![Len(st)].pc = LabelAt(st[Len(st)].kind, label)]

\* an exception thrown at the current step of the last routine of st: the
\* innermost catch block around the step takes it; a routine without one
\* rejects, which throws at the await of its caller; <<>> when no routine
\* of the chain catches it
RECURSIVE Raise(_)
Raise(st) ==
    IF st = <<>> THEN <<>>
    ELSE LET f == st[Len(st)]
             c == Body(f.kind)[f.pc].catch
         IN IF c # "" THEN Jump(st, c)
            ELSE Raise(SubSeq(st, 1, Len(st) - 1))

BoundaryInit ==
    /\ revision = "feat"
    /\ workspaceOpen \in BOOLEAN
    /\ isRepo = TRUE
    /\ headBranch = DEV
    /\ additionalBaseBranches = <<>>
    /\ history = <<>>
    /\ pc = "idle" /\ op = NoOp /\ cmds = <<>> /\ errors = <<>>
    /\ infos = <<>> /\ refreshes = 0
    /\ logFails = FALSE
    /\ stdout = <<>>
    /\ listing = NotListed
    /\ parsed = NotParsed
    /\ ignoredFilesPattern = DEFAULT_PATTERN
    /\ worktree = {}
    /\ staged = {}
    /\ committed = {}
    /\ filter = NoFilter
    /\ stored = NothingStored
    /\ writes = <<>>
    /\ tasks = <<>>
    /\ thisCurrentBranch \in {JsNull, DEV}
    /\ cacheAge = [epoch |-> 0, newest |-> 0]
    /\ headEpoch = 0
    /\ changed = FALSE
    /\ treeDirty = FALSE
    /\ views = NoViews
    /\ UiIdle

boundaryRest == <<revision, isRepo, headBranch, additionalBaseBranches,
                  history, cmds, refreshes, stdout, logFails, listing,
                  parsed, filterVars, settingsVars, cacheAge, headEpoch,
                  changed, treeDirty, uiVars>>

\* the host calls a handler
Invoke(h) ==
    /\ pc = "idle"
    /\ pc' = "running"
    /\ op' = Op(h)
    /\ tasks' = <<Frame(h)>>
    /\ errors' = <<>>
    /\ infos' = <<>>
    /\ views' = NoViews
    /\ UNCHANGED <<boundaryRest, workspaceOpen, thisCurrentBranch>>

Running(do) == pc = "running" /\ Cur.do = do

\* the current step goes on without an exception
GoesOn(st) ==
    /\ tasks' = st
    /\ UNCHANGED <<boundaryRest, workspaceOpen, thisCurrentBranch, pc, op,
                   errors, infos, views>>

\* the current step throws; sites are the failures to record
Throws(sites) ==
    LET st == Raise(tasks) IN
    /\ tasks' = st
    /\ pc' = IF st = <<>> THEN "rejected" ELSE pc
    /\ op' = [op EXCEPT !.failed = @ \o sites,
                        !.caught = \/ @
                                   \/ /\ Len(st) = 1
                                      /\ Body(st[1].kind)[st[1].pc].label
                                            = "boundary"]
    /\ UNCHANGED <<boundaryRest, workspaceOpen, thisCurrentBranch, errors,
                   infos, views>>

\* getWorkspacePath() throws 'No workspace folder is opened'
GetWorkspacePath ==
    /\ Running("wp")
    /\ IF workspaceOpen
       THEN GoesOn(Advance(tasks))
       ELSE Throws(<< <<Top.kind, "getWorkspacePath">> >>)

\* await execAsync(...) settles
Exec(ok) ==
    /\ Running("git")
    /\ IF ok THEN GoesOn(Advance(tasks))
       ELSE Throws(<< <<Top.kind, Cur.arg>> >>)

\* await config.update(...) settles; the Workspace target needs a workspace
ConfigUpdate(ok) ==
    /\ Running("update")
    /\ ok => (Cur.arg = "Global" \/ workspaceOpen)
    /\ IF ok THEN GoesOn(Advance(tasks))
       ELSE Throws(<< <<Top.kind, Cur.arg>> >>)

\* new RegExp(pattern)
NewRegExp(ok) ==
    /\ Running("regexp")
    /\ IF ok THEN GoesOn(Advance(tasks))
       ELSE Throws(<< <<Top.kind, "new RegExp">> >>)

\* await of another routine of the class
Call ==
    /\ Running("call")
    /\ GoesOn(Append(tasks, Frame(Cur.arg)))

\* return: the caller goes on after its await, the handler's promise
\* resolves
ReturnStep ==
    /\ Running("return")
    /\ IF Len(tasks) = 1
       THEN /\ tasks' = <<>>
            /\ pc' = "returned"
       ELSE /\ tasks' = [SubSeq(tasks, 1, Len(tasks) - 1)
                           EXCEPT ![Len(tasks) - 1].val = Cur.arg,
                                  ![Len(tasks) - 1].pc = @ + 1]
            /\ pc' = pc
    /\ UNCHANGED <<boundaryRest, workspaceOpen, thisCurrentBranch, op,
                   errors, infos, views>>

\* throw new Error(...) in a catch block
Throw ==
    /\ Running("throw")
    /\ Throws(<<>>)

\* a branch on data: the user's input, the branch name, the files staged
Choice(jump) ==
    /\ Running("choice")
    /\ GoesOn(IF jump THEN Jump(tasks, Cur.arg) ELSE Advance(tasks))

\* if (!await this.isGitRepository(workspacePath))
IfNot ==
    /\ Running("ifnot")
    /\ GoesOn(IF Top.val = "false" THEN Jump(tasks, Cur.arg)
              ELSE Advance(tasks))

\* if (this.currentBranch !== null) in the catch block of handleBranchChange
IfNull ==
    /\ Running("ifnull")
    /\ GoesOn(IF thisCurrentBranch = JsNull THEN Jump(tasks, Cur.arg)
              ELSE Advance(tasks))

\* the end of a try or catch block that is followed by more statements
Goto ==
    /\ Running("goto")
    /\ GoesOn(Jump(tasks, Cur.arg))

\* vscode.window.showErrorMessage / showInformationMessage
Show ==
    /\ pc = "running"
    /\ Cur.do \in {"error", "info"}
    /\ errors' = IF Cur.do = "error" THEN Append(errors, Cur.arg) ELSE errors
    /\ infos' = IF Cur.do = "info" THEN Append(infos, Cur.arg) ELSE infos
    /\ tasks' = Advance(tasks)
    /\ UNCHANGED <<boundaryRest, workspaceOpen, thisCurrentBranch, pc, op,
                   views>>

\* this.statusBarItem.text = ..., this.currentBranch = ...
Set ==
    /\ Running("set")
    /\ thisCurrentBranch' =
          CASE Cur.arg = "currentBranch" -> BranchOf(headBranch)
            [] Cur.arg = "null" -> JsNull
            [] OTHER -> thisCurrentBranch
    /\ views' = IF Cur.arg \in {"currentBranch", "null"} THEN views
                ELSE [views EXCEPT !.status = <<Cur.arg>>]
    /\ tasks' = Advance(tasks)
    /\ UNCHANGED <<boundaryRest, workspaceOpen, pc, op, errors, infos>>

\* the workspace folders change while a handler is awaiting
WorkspaceFolders ==
    /\ workspaceOpen' = ~workspaceOpen
    /\ UNCHANGED <<boundaryRest, handlerVars, tasks, thisCurrentBranch,
                   views>>

\* the host is ready for the next call
Settled ==
    /\ pc \in {"returned", "rejected"}
    /\ pc' = "idle"
    /\ op' = NoOp
    /\ tasks' = <<>>
    /\ errors' = <<>>
    /\ infos' = <<>>
    /\ views' = NoViews
    /\ UNCHANGED <<boundaryRest, workspaceOpen, thisCurrentBranch>>

BoundaryNext ==
    \/ \E h \in Handlers : Invoke(h)
    \/ GetWorkspacePath
    \/ \E ok \in BOOLEAN : Exec(ok)
    \/ \E ok \in BOOLEAN : ConfigUpdate(ok)
    \/ \E ok \in BOOLEAN : NewRegExp(ok)
    \/ Call
    \/ ReturnStep
    \/ Throw
    \/ \E jump \in BOOLEAN : Choice(jump)
    \/ IfNot
    \/ IfNull
    \/ Goto
    \/ Show
    \/ Set
    \/ WorkspaceFolders
    \/ Settled

SpecBoundary == BoundaryInit /\ [][BoundaryNext]_vars

\* C13: no handler (createMilestone, revertToMilestone, refresh,
\* configureBaseBranches, configureIgnoredFiles, handleBranchChange,
\* updateStatusBar, getChildren) ends with an uncaught exception or a
\* rejected promise, whatever git commands fail, configuration writes fail
\* or workspace is missing; when an exception reached the handler's
\* outermost catch block, the handler ends with an error message or with a
\* default value (status bar 'Error', this.currentBranch null).
C13_FailuresCaughtAtBoundary ==
    /\ pc # "rejected"
    /\ (pc = "returned" /\ op.caught) =>
          \/ errors # <<>>
          \/ views.status = <<"Error">>
          \/ thisCurrentBranch = JsNull

\* updateStatusBar has returned although the workspace went away before
\* hasMilestones called getWorkspacePath outside its own try block
C13_Witness ==
    /\ pc = "returned"
    /\ op.kind = "updateStatusBar"
    /\ op.failed = << <<"hasMilestones", "getWorkspacePath">> >>
    /\ views.status = <<"Error">>

(***************************************************************************)
(* handleBranchChange once updateCurrentBranch has stored the branch       *)
(***************************************************************************)
\* setupBranchWatcher's updateCurrentBranch and the first refresh of the
\* two views have finished
BranchInit ==
    /\ revision = "feat"
    /\ workspaceOpen = TRUE
    /\ isRepo = TRUE
    /\ headBranch \in {DEV, FIX}
    /\ additionalBaseBranches = <<>>
    /\ history = <<>>
    /\ pc = "idle" /\ op = NoOp /\ cmds = <<>> /\ errors = <<>>
    /\ infos = <<>> /\ refreshes = 0
    /\ logFails = FALSE
    /\ stdout = <<>>
    /\ listing = NotListed
    /\ parsed = NotParsed
    /\ ignoredFilesPattern = DEFAULT_PATTERN
    /\ worktree = {}
    /\ staged = {}
    /\ committed = {}
    /\ filter = NoFilter
    /\ stored = NothingStored
    /\ writes = <<>>
    /\ tasks = <<>>
    /\ thisCurrentBranch = BranchOf(headBranch)
    /\ cacheAge = [epoch |-> 0, newest |-> 0]
    /\ headEpoch = 0
    /\ changed = FALSE
    /\ treeDirty = FALSE
    /\ views = [tree |-> headBranch, status |-> headBranch]
    /\ UiIdle

BranchNext ==
    \/ \E b \in {DEV, FIX, Undef} : SwitchHead(b)
    \/ WatcherFires
    \/ \E i \in 1..Len(tasks) : GitReads(i)
    \/ \E i \in 1..Len(tasks) : HandleBranchChangeDone(i)
    \/ \E i \in 1..Len(tasks) : UsbRevParseDone(i)
    \/ \E i \in 1..Len(tasks) : UsbLogDone(i)
    \/ \E i \in 1..Len(tasks) : UsbHasDone(i)
    \/ GetChildrenStart
    \/ \E i \in 1..Len(tasks) : GetChildrenDone(i)

SpecBranch == BranchInit /\ [][BranchNext]_vars

\* the handleBranchChange calls in flight
Changing(ts) ==
    {i \in 1..Len(ts) : ts[i].kind = "handleBranchChange"}

\* what handleBranchChange i compares this.currentBranch with: the trimmed
\* output of git symbolic-ref, or null when the command was rejected
NewBranch(i) ==
    IF tasks[i].val.head = Undef THEN JsNull ELSE BranchOf(tasks[i].val.head)

\* a step in which a handleBranchChange call completes
HandleBranchChangeStep ==
    Cardinality(Changing(tasks')) < Cardinality(Changing(tasks)) =>
        \E i \in Changing(tasks) :
            /\ tasks[i].val # Unread
            /\ IF thisCurrentBranch # NewBranch(i)
               THEN /\ thisCurrentBranch' = NewBranch(i)
                    /\ tasks' = Append(Remove(tasks, i),
                                       Task("updateStatusBar", "usb_revparse"))
                    /\ treeDirty'
               ELSE /\ tasks' = Remove(tasks, i)
                    /\ UNCHANGED <<thisCurrentBranch, treeDirty>>
            /\ UNCHANGED views

\* C22: handleBranchChange stores the branch B that git symbolic-ref printed
\* and triggers a status bar update and a view refresh exactly when
\* this.currentBranch differs from B, and changes nothing otherwise; when
\* the command fails it stores null and triggers one refresh only if
\* this.currentBranch was not null already.
C22_RefreshIffBranchDiffers == [][HandleBranchChangeStep]_vars

\* HEAD was detached and then moved to another commit; the two callbacks
\* have completed, this.currentBranch is null and every refresh is done
C22_Witness ==
    /\ headEpoch > 1
    /\ headBranch = Undef
    /\ tasks = <<>> /\ ~changed /\ ~treeDirty
    /\ thisCurrentBranch = JsNull
    /\ cacheAge.epoch = 1
    /\ views.status = Undef

(***************************************************************************)
(* The tree data provider with cachedMilestones (out/extension.js,         *)
(* part_002, first module of part_005)                                     *)
(***************************************************************************)
\* a getChildren call awaiting getMilestones; born is the number of
\* refresh() calls made before it started
Listing(born) ==
    [kind |-> "getChildren", pc |-> "gc_log", val |-> Unread, born |-> born]

\* the repository has no milestone commit yet, the tree was never rendered
CacheInit ==
    /\ revision = "plain"
    /\ workspaceOpen = TRUE
    /\ isRepo = TRUE
    /\ headBranch = DEV
    /\ additionalBaseBranches = <<>>
    /\ history = <<>>
    /\ pc = "idle" /\ op = NoOp /\ cmds = <<>> /\ errors = <<>>
    /\ infos = <<>> /\ refreshes = 0
    /\ logFails = FALSE
    /\ stdout = <<>>
    /\ listing = NotListed
    /\ parsed = NotParsed
    /\ ignoredFilesPattern = DEFAULT_PATTERN
    /\ worktree = {}
    /\ staged = {}
    /\ committed = {}
    /\ filter = NoFilter
    /\ stored = NothingStored
    /\ writes = <<>>
    /\ tasks = <<>>
    /\ thisCurrentBranch = JsNull
    /\ cacheAge = [epoch |-> 0, newest |-> 0]
    /\ headEpoch = 0
    /\ changed = FALSE
    /\ treeDirty = TRUE
    /\ views = NoViews
    /\ UiIdle

cacheRest == <<revision, workspaceOpen, isRepo, headBranch,
               additionalBaseBranches, history, pc, op, cmds, errors, infos,
               stdout, logFails, listing, parsed, filterVars, settingsVars,
               thisCurrentBranch, cacheAge, changed,
               folder, watched, gitHeadWatcher, webviewPanel, panels, chat>>

\* a milestone commit is added to the branch (by createMilestone, before
\* its refresh, or by any other program)
MilestoneCommitted ==
    /\ headEpoch < MaxSwitches
    /\ headEpoch' = headEpoch + 1
    /\ UNCHANGED <<cacheRest, refreshes, tasks, treeDirty, views,
                   cachedMilestones>>

\* refresh(): this.cachedMilestones = null; this._onDidChangeTreeData.fire()
CacheRefresh ==
    /\ refreshes < MaxRefreshes
    /\ refreshes' = refreshes + 1
    /\ cachedMilestones' = JsNull
    /\ treeDirty' = TRUE
    /\ UNCHANGED <<cacheRest, headEpoch, tasks, views>>

\* the tree view calls getChildren: the cached items are returned, or
\* getMilestones is awaited
CacheGetChildren ==
    /\ treeDirty
    /\ treeDirty' = FALSE
    /\ IF cachedMilestones # JsNull
       THEN /\ views' = [views EXCEPT !.tree = cachedMilestones]
            /\ tasks' = tasks
       ELSE /\ Len(tasks) < MaxTasks
            /\ tasks' = Append(tasks, Listing(refreshes))
            /\ views' = views
    /\ UNCHANGED <<cacheRest, refreshes, headEpoch, cachedMilestones>>

\* the items made of a listing read at `epoch` by a call born at `born`
Items(epoch, born) == <<"items", epoch, born>>

\* getChildren goes on after getMilestones: an empty listing is answered
\* with 'No milestones yet' and not cached, any other is mapped to tree
\* items, stored in this.cachedMilestones and returned
CacheGetChildrenDone(i) ==
    /\ tasks[i].pc = "gc_log"
    /\ tasks[i].val # Unread
    /\ LET t == tasks[i]
       IN IF t.val.epoch = 0
          THEN /\ views' = [views EXCEPT !.tree = <<"No milestones yet">>]
               /\ cachedMilestones' = cachedMilestones
          ELSE /\ views' = [views EXCEPT !.tree = Items(t.val.epoch, t.born)]
               /\ cachedMilestones' = Items(t.val.epoch, t.born)
    /\ tasks' = Remove(tasks, i)
    /\ UNCHANGED <<cacheRest, refreshes, headEpoch, treeDirty>>

\* the git log subprocess of getMilestones reads the branch
CacheGitReads(i) ==
    /\ GitReads(i)
    /\ UNCHANGED <<refreshes, cachedMilestones>>

CacheNext ==
    \/ MilestoneCommitted
    \/ CacheRefresh
    \/ CacheGetChildren
    \/ \E i \in 1..Len(tasks) : CacheGitReads(i)
    \/ \E i \in 1..Len(tasks) : CacheGetChildrenDone(i)

SpecCache == CacheInit /\ [][CacheNext]_vars

\* C23: once every getChildren call that was in flight when refresh() was
\* called has completed, cachedMilestones is null or was computed from a
\* listing started after that refresh.
C23_CacheFreshAfterRefresh ==
    \A k \in 1..refreshes :
        (\A i \in 1..Len(tasks) : tasks[i].born >= k) =>
            \/ cachedMilestones = JsNull
            \/ cachedMilestones[3] >= k

(***************************************************************************)
(* Registration of the .git/HEAD watcher (README.md, JavaScript)           *)
(***************************************************************************)
\* the value fs.watchFile returns
StatWatcher == <<"StatWatcher">>

\* the workspace has no folder (0), or its first folder is folder 1 or 2
Folders == 0..2

\* cleanupBranchWatcher with first folder f (0: getWorkspacePath throws):
\* fs.unwatchFile is called with the path of the folder open now
cleanupBranchWatcher(w, g, f) ==
    IF g = JsNull THEN [watched |-> w, gitHeadWatcher |-> g]
    ELSE IF f = 0 THEN [watched |-> w, gitHeadWatcher |-> JsNull]
    ELSE [watched |-> w \ {f}, gitHeadWatcher |-> JsNull]

\* setupBranchWatcher; exists is fs.existsSync(gitHeadPath); started tells
\* whether updateCurrentBranch() was called
setupBranchWatcher(w, g, f, exists) ==
    LET c == cleanupBranchWatcher(w, g, f)
    IN IF f = 0 \/ ~exists
       THEN [watched |-> c.watched, gitHeadWatcher |-> c.gitHeadWatcher,
             started |-> FALSE]
       ELSE [watched |-> c.watched \cup {f}, gitHeadWatcher |-> StatWatcher,
             started |-> TRUE]

\* the extension is not activated yet
WatchInit ==
    /\ revision = "feat"
    /\ folder \in {0, 1}
    /\ workspaceOpen = (folder # 0)
    /\ isRepo \in {b \in BOOLEAN : b => folder # 0}
    /\ headBranch = DEV
    /\ additionalBaseBranches = <<>>
    /\ history = <<>>
    /\ pc = "inactive" /\ op = NoOp /\ cmds = <<>> /\ errors = <<>>
    /\ infos = <<>> /\ refreshes = 0
    /\ logFails = FALSE
    /\ stdout = <<>>
    /\ listing = NotListed
    /\ parsed = NotParsed
    /\ ignoredFilesPattern = DEFAULT_PATTERN
    /\ worktree = {}
    /\ staged = {}
    /\ committed = {}
    /\ filter = NoFilter
    /\ stored = NothingStored
    /\ writes = <<>>
    /\ WatcherIdle
    /\ cachedMilestones = JsNull
    /\ watched = {}
    /\ gitHeadWatcher = JsNull
    /\ webviewPanel = Undef
    /\ panels = {}
    /\ chat = NoChat

watchRest == <<revision, headBranch, additionalBaseBranches, history, op,
               cmds, errors, infos, refreshes, stdout, logFails, listing,
               parsed, filterVars, settingsVars, thisCurrentBranch, cacheAge,
               headEpoch, changed, cachedMilestones, webviewPanel, panels,
               chat>>

\* updateStatusBar(), not awaited, in first folder f: without a folder
\* getWorkspacePath throws before the first await and the catch block sets
\* the text
StartStatusBar(ts, f) ==
    IF f = 0 THEN ts ELSE RefreshViews(ts)

\* the routines updateStatusBar() and setupBranchWatcher() start, and the
\* registration of the watch
Registers(f, exists) ==
    LET r == setupBranchWatcher(watched, gitHeadWatcher, f, exists)
        ts == StartStatusBar(tasks, f)
    IN /\ watched' = r.watched
       /\ gitHeadWatcher' = r.gitHeadWatcher
       /\ tasks' = IF r.started
                   THEN Append(ts, Task("updateCurrentBranch", "ucb_ref"))
                   ELSE ts
       /\ Len(tasks') <= MaxTasks
       /\ views' = IF f = 0 THEN [views EXCEPT !.status = <<"Error">>]
                   ELSE views
       /\ treeDirty' = TRUE

\* activate: the constructor of MilestoneManager
Activate ==
    /\ pc = "inactive"
    /\ pc' = "idle"
    /\ Registers(folder, isRepo)
    /\ UNCHANGED <<watchRest, folder, workspaceOpen, isRepo>>

\* the first workspace folder becomes f, whose .git/HEAD exists or not; the
\* onDidChangeWorkspaceFolders listener runs
FoldersChange(f, exists) ==
    /\ pc = "idle"
    /\ f # folder
    /\ exists => f # 0
    /\ folder' = f
    /\ workspaceOpen' = (f # 0)
    /\ isRepo' = exists
    /\ Registers(f, exists)
    /\ UNCHANGED <<watchRest, pc>>

\* deactivate: dispose() -> cleanupBranchWatcher()
Deactivate ==
    /\ pc = "idle"
    /\ pc' = "deactivated"
    /\ LET c == cleanupBranchWatcher(watched, gitHeadWatcher, folder)
       IN watched' = c.watched /\ gitHeadWatcher' = c.gitHeadWatcher
    /\ UNCHANGED <<watchRest, folder, workspaceOpen, isRepo, tasks, treeDirty,
                   views>>

WatchNext ==
    \/ Activate
    \/ \E f \in Folders, exists \in BOOLEAN : FoldersChange(f, exists)
    \/ Deactivate
    \/ \E i \in 1..Len(tasks) : GitReads(i)
    \/ \E i \in 1..Len(tasks) : UpdateCurrentBranchDone(i)
    \/ \E i \in 1..Len(tasks) : UsbRevParseDone(i)
    \/ \E i \in 1..Len(tasks) : UsbLogDone(i)
    \/ \E i \in 1..Len(tasks) : UsbHasDone(i)
    \/ GetChildrenStart
    \/ \E i \in 1..Len(tasks) : GetChildrenDone(i)

SpecWatch == WatchInit /\ [][WatchNext]_vars

\* C24: at most one file is polled; this.gitHeadWatcher is non-null only
\* while its file is being watched; after deactivate no watch remains.
C24_AtMostOneHeadWatcher ==
    /\ Cardinality(watched) <= 1
    /\ gitHeadWatcher # JsNull => watched # {}
    /\ pc = "deactivated" => watched = {}

(***************************************************************************)
(* SpecStatus: the status bar item and the listing on one history          *)
(***************************************************************************)
\* milestones in the history of HEAD
MaxTagged == 11

\* the -n arguments of the git log calls
TAG_LIST_LIMIT == 100
TAG_CURRENT_LIMIT == 10
TAG_HAS_LIMIT == 50
FEAT_LIST_LIMIT == 50
FEAT_HAS_LIMIT == 1

STATUS_ICON == <<"$", "(", "m", "i", "l", "e", "s", "t", "o", "n", "e", ")", " ">>
CREATE_MILESTONE == <<"C", "r", "e", "a", "t", "e", " ", "m", "i", "l", "e", "s", "t", "o", "n", "e">>
TIP_CREATE == <<"Create milestone">>
TIP_FIRST == <<"Click to create your first milestone">>
TIP_NEW == <<"Create new milestone">>

DecDigits == <<"0", "1", "2", "3", "4", "5", "6", "7", "8", "9">>
NoteLetters == <<"a", "b", "c", "d", "e", "f", "g", "h", "i", "j", "k", "l", "m">>

RECURSIVE Numeral(_)
Numeral(i) ==
    IF i < 10 THEN <<DecDigits[i + 1]>>
    ELSE Numeral(i \div 10) \o <<DecDigits[(i % 10) + 1]>>

\* the note of the k-th milestone: every milestone has a note of its own
NoteOf(k) == <<NoteLetters[k]>>

\* the commits git log -n <n> --grep=... walks to, newest first
Shown(rev, commits, n) ==
    LET hits == SelectSeq([i \in 1..Len(commits) |-> i],
                          LAMBDA i : GrepMatches(rev, commits[i].subject))
    IN Sub(hits, 1, IF Len(hits) < n THEN Len(hits) ELSE n)

\* --pretty=format:"%H|||%s|||%ad|||%ai" --date=short
LogFull(rev, commits, n) ==
    LET shown == Shown(rev, commits, n)
    IN Join([k \in 1..Len(shown) |->
                Join(<<<<"h">> \o Numeral(shown[k]),
                       commits[shown[k]].subject,
                       <<"d">> \o Numeral(shown[k]),
                       <<"d">> \o Numeral(shown[k]) \o SP \o <<"t">>
                           \o Numeral(shown[k]) \o SP \o <<"z">> >>,
                     FIELD_DELIM)],
            LF)

\* --pretty=format:"%s"
LogSubjects(rev, commits, n) ==
    LET shown == Shown(rev, commits, n)
    IN Join([k \in 1..Len(shown) |-> commits[shown[k]].subject], LF)

\* getMilestones on the history of HEAD
ListOf(rev, head, commits) ==
    getMilestones(rev, TRUE, RefOut(head), FALSE,
                  LogFull(rev, commits,
                          IF rev = "tag" THEN TAG_LIST_LIMIT ELSE FEAT_LIST_LIMIT))

\* getCurrentMilestone: the text of the newest milestone, or null
getCurrentMilestone(rev, head, commits) ==
    IF rev = "tag"
    THEN IF head = Undef THEN JsNull
         ELSE LET out == LogSubjects(rev, commits, TAG_CURRENT_LIMIT)
                  msgs == Split(Trim(out), LF)
                  mine == SelectSeq(msgs,
                              LAMBDA msg : /\ Len(Split(msg, TAG_SEP)) >= 5
                                           /\ At(Split(msg, TAG_SEP), 2) = BranchOf(head))
              IN IF Trim(out) = <<>> THEN JsNull
                 ELSE IF mine = <<>> THEN JsNull
                 ELSE MILESTONE_PREFIX \o At(Split(mine[1], TAG_SEP), 4)
    ELSE LET m == ListOf(rev, head, commits).value
         IN IF Len(m) > 0 THEN m[1].message ELSE JsNull

\* hasMilestones
hasMilestones(rev, head, commits) ==
    IF rev = "tag"
    THEN IF head = Undef THEN FALSE
         ELSE LET out == LogSubjects(rev, commits, TAG_HAS_LIMIT)
                  msgs == Split(out, LF)
              IN /\ Trim(out) # <<>>
                 /\ \E k \in 1..Len(msgs) :
                       /\ Len(Split(msgs[k], TAG_SEP)) >= 5
                       /\ At(Split(msgs[k], TAG_SEP), 2) = BranchOf(head)
    ELSE Trim(LogSubjects(rev, commits, FEAT_HAS_LIMIT)) # <<>>

\* updateStatusBar in a git repository: the text and the tooltip of the item
StatusBarOf(rev, head, commits) ==
    LET milestoneInfo == getCurrentMilestone(rev, head, commits)
        hasAnyMilestones == hasMilestones(rev, head, commits)
    IN IF milestoneInfo # JsNull /\ milestoneInfo # <<>>
       THEN <<STATUS_ICON \o milestoneInfo, TIP_CREATE>>
       ELSE IF ~hasAnyMilestones
       THEN <<STATUS_ICON \o CREATE_MILESTONE, TIP_FIRST>>
       ELSE <<STATUS_ICON \o CREATE_MILESTONE, TIP_NEW>>

StatusInit ==
    /\ revision \in {"tag", "feat"}
    /\ workspaceOpen = TRUE
    /\ isRepo = TRUE
    /\ headBranch = DEV
    /\ additionalBaseBranches = <<>>
    /\ history = <<>>
    /\ pc = "idle" /\ op = NoOp /\ cmds = <<>> /\ errors = <<>>
    /\ infos = <<>> /\ refreshes = 0
    /\ logFails = FALSE
    /\ stdout = <<>>
    /\ listing = NotListed
    /\ parsed = <<>>
    /\ RestInit

statusRest == <<envVars, handlerVars, filterVars, settingsVars, uiVars,
                tasks, thisCurrentBranch, cacheAge, headEpoch, changed,
                treeDirty, logFails, parsed>>

\* a milestone created while branch b was checked out enters the history of
\* HEAD: createMilestone on dev itself, or a milestone of fix, a branch that
\* was forked from dev once, so that its milestones follow one another
StatusCommit(b) ==
    /\ Len(history) < MaxTagged
    /\ b = FIX => \A i \in 1..Len(history) :
                     history[i].branch = FIX =>
                         \A j \in 1..i : history[j].branch = FIX
    /\ history' = <<[subject |-> Encode(revision, NoteOf(Len(history) + 1), RefOut(b)),
                     made |-> TRUE, note |-> NoteOf(Len(history) + 1),
                     branch |-> b]>> \o history
    /\ stdout' = <<>>
    /\ listing' = NotListed
    /\ views' = NoViews
    /\ UNCHANGED statusRest

\* updateStatusBar runs to its end
StatusUpdate ==
    /\ views.status = <<"none">>
    /\ views' = [views EXCEPT !.status = StatusBarOf(revision, headBranch, history)]
    /\ UNCHANGED <<statusRest, history, stdout, listing>>

\* getMilestones runs to its end
StatusList ==
    /\ listing = NotListed
    /\ stdout' = LogFull(revision, history,
                         IF revision = "tag" THEN TAG_LIST_LIMIT ELSE FEAT_LIST_LIMIT)
    /\ listing' = ListOf(revision, headBranch, history)
    /\ UNCHANGED <<statusRest, history, views>>

StatusNext ==
    \/ \E b \in {DEV, FIX} : StatusCommit(b)
    \/ StatusUpdate
    \/ StatusList

SpecStatus == StatusInit /\ [][StatusNext]_vars

\* C26: once updateStatusBar has completed in a git repository, the status
\* bar shows a milestone text exactly when getMilestones of the same
\* repository state is not empty, and the text is the message of the first
\* record of the listing
C26_StatusBarAgreesWithListing ==
    (views.status # <<"none">> /\ listing # NotListed) =>
        /\ (views.status[1] # STATUS_ICON \o CREATE_MILESTONE)
               <=> (listing.value # <<>>)
        /\ listing.value # <<>> =>
               views.status[1] = STATUS_ICON \o listing.value[1].message

(***************************************************************************)
(* SpecOverlap: updateStatusBar calls that overlap                         *)
(***************************************************************************)
\* updateStatusBar: hasMilestones returns and the text of the status bar
\* item is set from the milestones read; the call stays in tasks, marked
\* done, so that the order in which the calls were started remains visible
UsbReturns(i) ==
    /\ tasks[i].pc = "usb_has"
    /\ views' = [views EXCEPT !.status = tasks[i].val.head]
    /\ tasks' = [tasks EXCEPT ![i].pc = "done"]
    /\ UNCHANGED <<watcherRest, headBranch, thisCurrentBranch, cacheAge,
                   headEpoch, changed, treeDirty>>

OverlapNext ==
    \/ \E b \in {DEV, FIX, Undef} : SwitchHead(b)
    \/ HandlerSucceeded
    \/ \E i \in 1..Len(tasks) : GitReads(i)
    \/ \E i \in 1..Len(tasks) : UsbRevParseDone(i)
    \/ \E i \in 1..Len(tasks) : UsbLogDone(i)
    \/ \E i \in 1..Len(tasks) : UsbReturns(i)

SpecOverlap == BranchInit /\ [][OverlapNext]_vars

\* the updateStatusBar calls made so far, in the order they were started
StatusCalls == {i \in 1..Len(tasks) : tasks[i].kind = "updateStatusBar"}

\* C27: once every updateStatusBar call in flight has completed, the status
\* bar shows what the most recently started call read from the repository,
\* never what a call started earlier and finished later read
C27_OverlappingUpdatesConverge ==
    (StatusCalls # {} /\ \A i \in StatusCalls : tasks[i].pc = "done") =>
        views.status =
            tasks[CHOOSE i \in StatusCalls : \A j \in StatusCalls : j <= i].val.head

(***************************************************************************)
(* SpecPanel: the webview panel (src/unnamed/part_005, second listing)     *)
(***************************************************************************)
\* webview panels created in one session
MaxPanels == 2

\* the n-th panel object the host hands out
Handle(n) == <<"panel", n>>

\* a panel as vscode.window.createWebviewPanel returns it: in front, no html
Panel(id) == [id |-> id, disposed |-> FALSE, shown |-> "created",
              html |-> "empty"]

\* the panels not disposed
Open(ps) == {p \in ps : ~p.disposed}

PanelInit ==
    /\ revision = "webview"
    /\ workspaceOpen = TRUE
    /\ isRepo = TRUE
    /\ headBranch = DEV
    /\ additionalBaseBranches = <<>>
    /\ history = <<>>
    /\ pc = "idle" /\ op = NoOp /\ cmds = <<>> /\ errors = <<>>
    /\ infos = <<>> /\ refreshes = 0
    /\ logFails = FALSE
    /\ stdout = <<>>
    /\ listing = NotListed
    /\ parsed = <<>>
    /\ RestInit

panelRest == <<envVars, handlerVars, listVars, parsed, history, filterVars,
               settingsVars, thisCurrentBranch, cacheAge, headEpoch, changed,
               treeDirty, views, cachedMilestones, folder, watched,
               gitHeadWatcher, chat>>

\* updateWebview up to its await: nothing without a panel, else
\* getBaseBranches and getMilestones, which spawns git log
updateWebview(ts, panel) ==
    IF panel = Undef THEN ts ELSE Append(ts, Task("updateWebview", "uw_log"))

\* showMilestones creating a panel whether or not one exists
ShowMilestones_AlwaysCreates ==
    /\ Cardinality(panels) < MaxPanels
    /\ Len(tasks) < MaxTasks
    /\ webviewPanel' = Handle(Cardinality(panels) + 1)
    /\ panels' = panels \cup {Panel(Handle(Cardinality(panels) + 1))}
    /\ tasks' = updateWebview(tasks, webviewPanel')
    /\ UNCHANGED panelRest

\* the milestone-manager.showMilestones command: initializeMilestoneView
\* when this.webviewPanel is not set, else reveal()
ShowMilestones ==
    IF webviewPanel = Undef
    THEN /\ Cardinality(panels) < MaxPanels
         /\ Len(tasks) < MaxTasks
         /\ webviewPanel' = Handle(Cardinality(panels) + 1)
         /\ panels' = panels \cup {Panel(Handle(Cardinality(panels) + 1))}
         /\ tasks' = updateWebview(tasks, webviewPanel')
         /\ UNCHANGED panelRest
    ELSE /\ panels' = {IF p.id = webviewPanel
                       THEN [p EXCEPT !.shown = "revealed"] ELSE p : p \in panels}
         /\ UNCHANGED <<panelRest, webviewPanel, tasks>>

\* the user brings another editor tab to the front
HidePanel(id) ==
    /\ \E p \in Open(panels) : p.id = id /\ p.shown # "hidden"
    /\ panels' = {IF p.id = id THEN [p EXCEPT !.shown = "hidden"] ELSE p :
                     p \in panels}
    /\ UNCHANGED <<panelRest, webviewPanel, tasks>>

\* the user closes the panel: the host disposes it and calls the
\* onDidDispose listener
DisposePanel(id) ==
    /\ \E p \in Open(panels) : p.id = id
    /\ panels' = {IF p.id = id THEN [p EXCEPT !.disposed = TRUE] ELSE p :
                     p \in panels}
    /\ webviewPanel' = Undef
    /\ UNCHANGED <<panelRest, tasks>>

\* this.updateWebview() after a create, a revert, a refresh, a change of
\* the settings or of the workspace folders; not awaited
UpdateWebviewCalled ==
    /\ Len(tasks) < MaxTasks
    /\ tasks' = updateWebview(tasks, webviewPanel)
    /\ UNCHANGED <<panelRest, webviewPanel, panels>>

\* updateWebview goes on after getMilestones: the html of the panel that
\* this.webviewPanel names now is set; without one the assignment throws a
\* TypeError and the promise nobody awaits is rejected
UpdateWebviewDone(i) ==
    /\ tasks[i].pc = "uw_log"
    /\ tasks' = Remove(tasks, i)
    /\ panels' = {IF p.id = webviewPanel
                  THEN [p EXCEPT !.html = "listing"] ELSE p : p \in panels}
    /\ UNCHANGED <<panelRest, webviewPanel>>

PanelNext ==
    \/ ShowMilestones
    \/ \E n \in 1..MaxPanels : HidePanel(Handle(n))
    \/ \E n \in 1..MaxPanels : DisposePanel(Handle(n))
    \/ UpdateWebviewCalled
    \/ \E i \in 1..Len(tasks) : UpdateWebviewDone(i)

SpecPanel == PanelInit /\ [][PanelNext]_vars

\* the ids of the panels of ps
PanelIds(ps) == {p.id : p \in ps}

PanelStep ==
    /\ Cardinality(Open(panels')) <= 1
    /\ PanelIds(panels') # PanelIds(panels) => Open(panels) = {}
    /\ (Open(panels) # {} /\ Open(panels') = Open(panels)) =>
           PanelIds(panels') = PanelIds(panels)
    /\ Open(panels') = {} => webviewPanel' = Undef
    /\ Open(panels') # {} => webviewPanel' \in PanelIds(Open(panels'))
    /\ Len(tasks') > Len(tasks) => Open(panels') # {}

\* C28: at most one webview panel exists; a panel is created only when none
\* exists, an existing one is kept and revealed; disposal resets
\* this.webviewPanel to undefined; updateWebview starts no listing while no
\* panel exists
C28_PanelSingleton == [][PanelStep]_vars

\* a second panel was created after the first was closed, it was revealed by
\* a later showMilestones and shows a listing
C28_Witness ==
    /\ \E p \in panels : p.disposed
    /\ \E p \in Open(panels) :
          p.id = webviewPanel /\ p.shown = "revealed" /\ p.html = "listing"

(***************************************************************************)
(* SpecChat: the chat hooks (src/unnamed/part_001)                         *)
(***************************************************************************)
\* key strokes and edits while one chat message is composed
MaxInputs == 3

CHAT == <<"c", "h", "a", "t">>
FILE_SCHEME == <<"f", "i", "l", "e">>
CHAT_SCHEME == <<"c", "h", "a", "t">>
AICHAT_SCHEME == <<"a", "i", "c", "h", "a", "t">>
CREATE_COLON == <<"c", "r", "e", "a", "t", "e", " ", "m", "i", "l", "e", "s", "t", "o", "n", "e", ":">>
CMD_A == <<"c", "r", "e", "a", "t", "e", " ", "m", "i", "l", "e", "s", "t", "o", "n", "e", ":", " ", "a">>
CMD_B == <<"c", "r", "e", "a", "t", "e", " ", "M", "I", "l", "e", "S", "T", "o", "N", "E", ":", "b">>
KEY_C == <<"c">>
CREATED_HEAD == <<"M", "i", "l", "e", "s", "t", "o", "n", "e", " ", "\"">>
CREATED_TAIL == <<"\"", " ", "c", "r", "e", "a", "t", "e", "d", " ", "s", "u", "c", "c", "e", "s", "s", "f", "u", "l", "l", "y", "!">>
FAILED_HEAD == <<"F", "a", "i", "l", "e", "d", " ", "t", "o", " ", "c", "r", "e", "a", "t", "e", " ", "m", "i", "l", "e", "s", "t", "o", "n", "e", ":", " ">>
UNKNOWN_ERROR == <<"U", "n", "k", "n", "o", "w", "n", " ", "e", "r", "r", "o", "r">>
NOT_FOUND == <<"c", "o", "m", "m", "a", "n", "d", " ", "n", "o", "t", " ", "f", "o", "u", "n", "d">>

\* text.match(/^create milestone:\s*(.+)$/i): match[1], or Undef when the
\* text does not match.  \s* is greedy and gives back one character when
\* nothing else is left for (.+); `.` matches no line terminator
MatchCreate(text) ==
    IF Len(text) <= Len(CREATE_COLON) THEN Undef
    ELSE IF ToLowerCase(Sub(text, 1, Len(CREATE_COLON))) # CREATE_COLON THEN Undef
    ELSE LET rest == Sub(text, Len(CREATE_COLON) + 1, Len(text))
             black == {i \in 1..Len(rest) : ~IsWhite(rest[i])}
             from == IF black = {} THEN Len(rest)
                     ELSE CHOOSE i \in black : \A j \in black : i <= j
             group == Sub(rest, from, Len(rest))
         IN IF \E i \in 1..Len(group) : group[i] = Newline THEN Undef
            ELSE group

\* setTimeout(() => executeCommand('milestone-manager.chatCreateMilestone',
\* milestoneName), 500)
Schedule(c, name) ==
    [c EXCEPT !.scheduled = Append(@, [name |-> name, fired |-> FALSE])]

\* the 'type' text editor command: the line of the cursor is matched
TypeHook(c) ==
    IF ~Includes(c.scheme, CHAT) THEN c
    ELSE IF MatchCreate(c.line) = Undef THEN c
    ELSE Schedule(c, Trim(MatchCreate(c.line)))

\* the onDidChangeTextDocument listener: the first change that matches is
\* scheduled, the loop ends there
ChangeHook(c, changes) ==
    IF ~Includes(c.scheme, CHAT) THEN c
    ELSE LET hits == SelectSeq(changes, LAMBDA t : MatchCreate(t) # Undef)
         IN IF hits = <<>> THEN c
            ELSE Schedule(c, Trim(MatchCreate(hits[1])))

\* chatCreateMilestone: the string returned, given how executeCommand of
\* milestone-manager.createMilestoneWithName ended
chatCreateMilestone(milestoneName, outcome) ==
    CASE outcome = "resolved" -> CREATED_HEAD \o milestoneName \o CREATED_TAIL
      [] outcome = "error" -> FAILED_HEAD \o NOT_FOUND
      [] outcome = "other" -> FAILED_HEAD \o UNKNOWN_ERROR

ChatInit ==
    /\ revision = "feat"
    /\ workspaceOpen = TRUE
    /\ isRepo = TRUE
    /\ headBranch = DEV
    /\ additionalBaseBranches = <<>>
    /\ history = <<>>
    /\ pc = "idle" /\ op = NoOp /\ cmds = <<>> /\ errors = <<>>
    /\ infos = <<>> /\ refreshes = 0
    /\ logFails = FALSE
    /\ stdout = <<>>
    /\ listing = NotListed
    /\ parsed = <<>>
    /\ ignoredFilesPattern = DEFAULT_PATTERN
    /\ worktree = {}
    /\ staged = {}
    /\ committed = {}
    /\ filter = NoFilter
    /\ stored = NothingStored
    /\ writes = <<>>
    /\ WatcherIdle
    /\ cachedMilestones = JsNull
    /\ folder = 1
    /\ watched = {}
    /\ gitHeadWatcher = JsNull
    /\ webviewPanel = Undef
    /\ panels = {}
    /\ \E s \in {FILE_SCHEME, CHAT_SCHEME, AICHAT_SCHEME} :
          chat = [NoChat EXCEPT !.scheme = s]

chatRest == <<envVars, handlerVars, listVars, parsed, history, filterVars,
              settingsVars, watcherVars, cachedMilestones, folder, watched,
              gitHeadWatcher, webviewPanel, panels>>

\* a key is pressed in the editor: the 'type' command registered by the
\* extension runs; it does not forward to default:type
TypeKey ==
    /\ chat.inputs < MaxInputs
    /\ chat' = [TypeHook(chat) EXCEPT !.inputs = @ + 1]
    /\ UNCHANGED chatRest

\* the document is edited (a paste, a completion, text inserted by the
\* host): one change event with its content changes
DocumentChanged(changes) ==
    /\ chat.inputs < MaxInputs
    /\ chat' = [ChangeHook([chat EXCEPT !.line = @ \o changes[Len(changes)]],
                           changes)
                   EXCEPT !.inputs = @ + 1]
    /\ UNCHANGED chatRest

\* 500 ms later: the scheduled invocation runs chatCreateMilestone
TimerFires(i, outcome) ==
    /\ ~chat.scheduled[i].fired
    /\ chat' = [chat EXCEPT
                   !.scheduled[i].fired = TRUE,
                   !.results = @ \cup
                       {[outcome |-> outcome,
                         value |-> chatCreateMilestone(chat.scheduled[i].name,
                                                       outcome)]}]
    /\ UNCHANGED chatRest

ChangeTexts == {CMD_A, CMD_B, KEY_C}

ChatNext ==
    \/ TypeKey
    \/ \E t \in ChangeTexts : DocumentChanged(<<t>>)
    \/ \E t, u \in ChangeTexts : DocumentChanged(<<t, u>>)
    \/ \E i \in 1..Len(chat.scheduled), o \in {"resolved", "error", "other"} :
          TimerFires(i, o)

SpecChat == ChatInit /\ [][ChatNext]_vars

WhiteTokens(s) == SelectSeq(Split(s, SP), LAMBDA t : t # <<>>)

\* C30: every record of the listing was made from a line of four fields:
\* its hash is the first field, its date the third field, and its time the
\* second whitespace-separated token of the fourth, the full date-time
C30_RecordFieldsFromLine ==
    Listed =>
        \A k \in 1..Len(listing.value) :
            \E i \in 1..Len(StdoutLines) :
                LET f == FieldsOf(StdoutLines[i])
                IN /\ Len(f) = 4
                   /\ listing.value[k].hash = f[1]
                   /\ listing.value[k].date = f[3]
                   /\ Len(WhiteTokens(f[4])) >= 2
                   /\ listing.value[k].time = WhiteTokens(f[4])[2]

\* two lines were turned into records
C30_Witness ==
    /\ Listed
    /\ Len(listing.value) >= 2
    /\ listing.value[1].time # listing.value[2].time

====
